---- MODULE Spec2Model ----
(***************************************************************************)
(* The goskills agent runtime: the bounded tool-use loop of runner.go, the *)
(* tool catalog of tool_generator.go and tool/definitions.go, and the MCP  *)
(* tool naming of mcp/client.go.                                           *)
(*                                                                         *)
(* Strings that the code inspects character by character (tool names,      *)
(* script paths, operator input) are sequences of one-character strings.   *)
(***************************************************************************)
EXTENDS Integers, Sequences, FiniteSets, TLC

----------------------------------------------------------------------------
(* Bounds of the model *)

\* Free choices of the environment, per agent. One free choice is: a reply
\* whose tool calls are all the scripted call (run_shell_code with valid
\* arguments) or whose list of calls is empty, each other tool call of a reply,
\* an operator answer other than "y", a failing tool, a further turn, a failing
\* skill selection, or the model settling into the scripted scenario in which
\* it asks for the scripted call once per reply until the turn ends, the
\* operator answers "y" and the tool succeeds.
MaxFree == 2

----------------------------------------------------------------------------
(* Program constants *)

\* runner.go: for range 20
MaxIterations == 20

----------------------------------------------------------------------------
(* Strings *)

run_shell_code == <<"r","u","n","_","s","h","e","l","l","_","c","o","d","e">>
run_shell_script == <<"r","u","n","_","s","h","e","l","l","_","s","c","r","i","p","t">>
run_python_code == <<"r","u","n","_","p","y","t","h","o","n","_","c","o","d","e">>
run_python_script == <<"r","u","n","_","p","y","t","h","o","n","_","s","c","r","i","p","t">>
read_file == <<"r","e","a","d","_","f","i","l","e">>
write_file == <<"w","r","i","t","e","_","f","i","l","e">>
wikipedia_search == <<"w","i","k","i","p","e","d","i","a","_","s","e","a","r","c","h">>
tavily_search == <<"t","a","v","i","l","y","_","s","e","a","r","c","h">>
web_fetch == <<"w","e","b","_","f","e","t","c","h">>
duckduckgo_search == <<"d","u","c","k","d","u","c","k","g","o","_","s","e","a","r","c","h">>

Lower == <<"a","b","c","d","e","f","g","h","i","j","k","l","m","n","o","p","q","r","s","t","u","v","w","x","y","z">>
Upper == <<"A","B","C","D","E","F","G","H","I","J","K","L","M","N","O","P","Q","R","S","T","U","V","W","X","Y","Z">>
Digits == <<"0","1","2","3","4","5","6","7","8","9">>

Range(s) == {s[i] : i \in DOMAIN s}

\* strings.Contains(s, sub)
Contains(s, sub) ==
    \E i \in 0..(Len(s) - Len(sub)) : SubSeq(s, i + 1, i + Len(sub)) = sub

\* strings.HasSuffix(s, suf)
HasSuffix(s, suf) ==
    /\ Len(s) >= Len(suf)
    /\ SubSeq(s, Len(s) - Len(suf) + 1, Len(s)) = suf

\* unicode lower-casing of one character
ToLowerChar(c) ==
    IF \E i \in DOMAIN Upper : Upper[i] = c
    THEN Lower[CHOOSE i \in DOMAIN Upper : Upper[i] = c]
    ELSE c

\* strings.ToLower(s)
ToLower(s) == [i \in DOMAIN s |-> ToLowerChar(s[i])]

\* filepath.Join(dir, rel) for a clean relative path
JoinPath(dir, rel) == dir \o <<"/">> \o rel

----------------------------------------------------------------------------
(* Tool catalog *)

\* tool.GetBaseTools: the names of the built-in definitions, in order
GetBaseTools ==
    << run_shell_script, run_python_script, read_file, write_file,
       duckduckgo_search, wikipedia_search >>

\* the dot of the extension kept in the name
SafeCharKeepsDot(c) ==
    IF c \in Range(Lower) \cup Range(Upper) \cup Range(Digits) \cup {"."} THEN c ELSE "_"

\* generateScriptTool: the strings.Map callback
SafeChar(c) ==
    IF c \in Range(Lower) \cup Range(Upper) \cup Range(Digits) THEN c ELSE "_"

\* generateScriptTool: the tool name of a script
generateScriptTool(scriptRelPath) ==
    <<"r","u","n","_">> \o [i \in DOMAIN scriptRelPath |-> SafeChar(scriptRelPath[i])]

\* GenerateToolDefinitions, step 1: the base tools the skill allows
RECURSIVE FilterAllowed(_, _)
FilterAllowed(baseTools, allowed) ==
    IF baseTools = <<>> THEN <<>>
    ELSE (IF Head(baseTools) \in allowed THEN <<Head(baseTools)>> ELSE <<>>)
         \o FilterAllowed(Tail(baseTools), allowed)

\* GenerateToolDefinitions, step 2: scriptMap[toolName] = Join(skill.Path, rel);
\* a later script with the same tool name overwrites the earlier entry
RECURSIVE ScriptMapOf(_, _)
ScriptMapOf(skillPath, scripts) ==
    IF scripts = <<>> THEN <<>>
    ELSE LET rest == ScriptMapOf(skillPath, SubSeq(scripts, 1, Len(scripts) - 1))
             last == scripts[Len(scripts)]
             name == generateScriptTool(last)
             kept == SelectSeq(rest, LAMBDA e : e.name # name)
         IN  kept \o << [name |-> name, path |-> JoinPath(skillPath, last)] >>

\* GenerateToolDefinitions: (tools, scriptMap)
GenerateToolDefinitions(sk) ==
    LET base == IF Len(sk.allowed) > 0
                THEN FilterAllowed(GetBaseTools, Range(sk.allowed))
                ELSE GetBaseTools
        scr  == [i \in DOMAIN sk.scripts |-> generateScriptTool(sk.scripts[i])]
    IN  [tools |-> base \o scr, scriptMap |-> ScriptMapOf(sk.path, sk.scripts)]

\* mcp.Client.GetTools: "<server>__<tool>" for every tool of every session
RECURSIVE McpGetTools(_)
McpGetTools(sessions) ==
    IF sessions = <<>> THEN <<>>
    ELSE LET s == Head(sessions)
         IN  [i \in DOMAIN s.tools |-> s.name \o <<"_","_">> \o s.tools[i]]
             \o McpGetTools(Tail(sessions))

\* continueSkillWithTools, lines 351-363: the catalog sent with every request
AvailableTools(sk, mcp) ==
    GenerateToolDefinitions(sk).tools \o GetBaseTools
        \o (IF mcp.present THEN McpGetTools(mcp.sessions) ELSE <<>>)

----------------------------------------------------------------------------
(* Tool dispatch *)

\* JSON argument strings the model may send
ArgsValid == "{}"
ArgsMalformed == "{"
ArgsEmpty == ""

\* json.Unmarshal succeeds on the argument string
UnmarshalOk(args) == args = ArgsValid

\* executeToolCall: the cases of the switch on the tool name
BuiltinOps ==
    { run_shell_code, run_shell_script, run_python_code, run_python_script,
      read_file, write_file, wikipedia_search, tavily_search, web_fetch }

NoRoute == [kind |-> "none", target |-> <<>>, lang |-> "", err |-> ""]

\* executeToolCall up to the call of the tool implementation: the binding
\* the call is routed to, or the error returned before anything runs
executeToolCall(tc, sMap) ==
    IF tc.name \in BuiltinOps
    THEN IF UnmarshalOk(tc.args)
         THEN [kind |-> "builtin", target |-> tc.name, lang |-> "", err |-> ""]
         ELSE [NoRoute EXCEPT !.kind = "error", !.err = "failed to unmarshal arguments"]
    ELSE IF \E i \in DOMAIN sMap : sMap[i].name = tc.name
    THEN LET scriptPath == sMap[CHOOSE i \in DOMAIN sMap : sMap[i].name = tc.name].path
         IN  IF tc.args # ArgsEmpty /\ ~UnmarshalOk(tc.args)
             THEN [NoRoute EXCEPT !.kind = "error",
                                  !.err = "failed to unmarshal script arguments"]
             ELSE [kind |-> "script", target |-> scriptPath,
                   lang |-> IF HasSuffix(scriptPath, <<".","p","y">>)
                            THEN "python" ELSE "shell",
                   err |-> ""]
    ELSE [NoRoute EXCEPT !.kind = "error", !.err = "unknown tool"]

\* strings.Split(s, "__")
RECURSIVE SplitSep(_)
SplitSep(s) ==
    IF ~Contains(s, <<"_","_">>) THEN <<s>>
    ELSE LET i == CHOOSE k \in 1..(Len(s) - 1) :
                    /\ s[k] = "_" /\ s[k + 1] = "_"
                    /\ \A j \in 1..(k - 1) : ~(s[j] = "_" /\ s[j + 1] = "_")
         IN  <<SubSeq(s, 1, i - 1)>> \o SplitSep(SubSeq(s, i + 2, Len(s)))

\* the name split once, at its first separator
parseToolNameOnce(name) ==
    LET parts == SplitSep(name)
    IN  IF Len(parts) < 2
        THEN [ok |-> FALSE, server |-> <<>>, tool |-> <<>>]
        ELSE [ok |-> TRUE, server |-> parts[1],
              tool |-> SubSeq(name, Len(parts[1]) + 3, Len(name))]

\* mcp parseToolName
parseToolName(name) ==
    LET parts == SplitSep(name)
    IN  IF Len(parts) # 2
        THEN [ok |-> FALSE, server |-> <<>>, tool |-> <<>>]
        ELSE [ok |-> TRUE, server |-> parts[1], tool |-> parts[2]]

\* mcp.Client.CallTool up to the remote call: the server and remote tool the
\* call is routed to, or the error returned before any remote call
CallToolRoute(name, mcp) ==
    LET p == parseToolName(name)
    IN  IF ~p.ok
        THEN [NoRoute EXCEPT !.kind = "error", !.err = "invalid tool name format"]
        ELSE IF ~\E i \in DOMAIN mcp.servers : mcp.servers[i] = p.server
        THEN [NoRoute EXCEPT !.kind = "error", !.err = "server not found in config"]
        ELSE IF ~\E i \in DOMAIN mcp.sessions : mcp.sessions[i].name = p.server
        THEN [NoRoute EXCEPT !.kind = "error", !.err = "server session not found"]
        ELSE [kind |-> "mcp", target |-> p.server \o <<"/">> \o p.tool,
              lang |-> "", err |-> ""]

\* continueSkillWithTools, line 422: the call goes to the MCP client
IsMcpCall(tc, mcp) == mcp.present /\ Contains(tc.name, <<"_","_">>)

\* continueSkillWithTools, lines 418-437: where a tool call is routed
Route(tc, sMap, mcp) ==
    IF IsMcpCall(tc, mcp)
    THEN IF ~UnmarshalOk(tc.args)
         THEN [NoRoute EXCEPT !.kind = "mcp_unmarshal"]
         ELSE CallToolRoute(tc.name, mcp)
    ELSE executeToolCall(tc, sMap)

\* The route reaches a tool implementation (or a remote call)
Executes(route) == route.kind \in {"builtin", "script", "mcp"}

----------------------------------------------------------------------------
(* The agent *)

VARIABLES
    cfg,            \* RunnerConfig: AutoApproveTools
    skill,          \* the skill package the agent resolves
    mcp,            \* the MCP client: present, configured servers, sessions
    messages,       \* Agent.messages
    pc,             \* "idle", "head", "call", "ask", "crashed"
    mode,           \* "none", "run", "loop": the public operation in progress
    iter,           \* iterations of the for range 20 loop begun in this turn
    calls,          \* msg.ToolCalls of the reply being processed
    idx,            \* position in calls of the next tool call
    outcome,        \* how the last continueSkillWithTools ended
    turns,          \* invocations of continueSkillWithTools so far
    availableTools, \* names of the tools sent with every request
    scriptMap,      \* tool name -> script path
    exec,           \* what the loop did with the last tool call it processed
    free,           \* free choices the environment has made so far
    lock,           \* the environment follows the scripted scenario to the end of the turn
    ctx,            \* the context.Context of the run: "live" or "cancelled"
    answer          \* RunLoop: what was last read from stdin after a turn

\* The MCP client of mcp/client.go
VARIABLES
    config,         \* mcp.Config: MaxRetries, MCPServers
    client,         \* mcp.Client: maxRetries, sessions (per server, 0 for none)
    conn,           \* the sessions created and closed so far, and the shutdown
    ct              \* the invocation of Client.CallTool in progress

poolVars == << config, client, conn, ct >>

\* Skill discovery and selection of runner.go; the agent-web server
VARIABLES
    sel,            \* selectAndPrepareSkill: what was discovered, replied, selected
    web             \* agent-web: session manager, request goroutines, one handler

vars == << cfg, skill, mcp, messages, pc, mode, iter, calls, idx, outcome, turns,
           availableTools, scriptMap, exec, free, lock, ctx, answer,
           config, client, conn, ct, sel, web >>

\* No selection has been made
NoSel ==
    [ packages |-> <<>>, parseErr |-> FALSE, SkillName |-> <<>>, done |-> FALSE,
      skills |-> <<>>, order |-> <<>>, reply |-> <<>>, content |-> <<>>,
      name |-> <<>>, found |-> FALSE, err |-> "" ]

\* No web server is running
NoWeb == [up |-> FALSE]

\* The names of the servers of the MCP configuration
ServerA == <<"a">>
ServerB == <<"b">>
PoolServers == { ServerA, ServerB }

NoConfig == [MaxRetries |-> 0, servers |-> {}]

NoClient ==
    [built |-> FALSE, err |-> "", maxRetries |-> 0,
     sessions |-> [s \in PoolServers |-> 0]]

NoShutdown == [done |-> FALSE, failed |-> {}, err |-> [nil |-> TRUE, errs |-> {}]]

NoConn ==
    [reachable |-> {}, created |-> [s \in PoolServers |-> 0], closed |-> {},
     calls |-> 0, shut |-> NoShutdown]

NoCallTool ==
    [pc |-> "idle", name |-> <<>>, server |-> <<>>, tool |-> <<>>, i |-> 0,
     attempts |-> 0, reconnects |-> 0, connErrs |-> 0, waited |-> 0,
     usedClosed |-> FALSE, err |-> "", reported |-> 0, last |-> <<>>]

\* No MCP client has been made
PoolIdle ==
    /\ config = NoConfig
    /\ client = NoClient
    /\ conn = NoConn
    /\ ct = NoCallTool
    /\ sel = NoSel
    /\ web = NoWeb

\* The skill of the agent scenarios: one allowed base tool, one shell script
LoopSkill ==
    [ path    |-> <<"/","k">>,
      allowed |-> << read_file >>,
      scripts |-> << <<"d",".","s","h">> >> ]

\* One connected MCP server "s" exposing the remote tool "t"
LoopMcp ==
    [ present  |-> TRUE,
      servers  |-> << <<"s">> >>,
      sessions |-> << [name |-> <<"s">>, tools |-> << <<"t">> >>] >> ]

\* One line of operator input on stdin: its space-separated words, or end of input
Line(words) == [eof |-> FALSE, words |-> words]
EndOfInput == [eof |-> TRUE, words |-> <<>>]

\* RunLoop: the line read at "Continue in loop?", whether "Next prompt:" was
\* asked, and the line read there
NoAnswer ==
    [line |-> <<>>, asked |-> FALSE, next |-> <<>>, read |-> FALSE, eof |-> FALSE]

NoCall == [id |-> "", name |-> <<>>, args |-> ""]

NoExec == [tc |-> NoCall, asked |-> FALSE, input |-> Line(<<>>),
           route |-> NoRoute, result |-> "none"]

Init ==
    /\ cfg \in [AutoApproveTools : BOOLEAN]
    /\ skill = LoopSkill
    /\ mcp = LoopMcp
    /\ messages = <<>>
    /\ pc = "idle"
    /\ mode = "none"
    /\ iter = 0
    /\ calls = <<>>
    /\ idx = 0
    /\ outcome = "none"
    /\ turns = 0
    /\ availableTools = <<>>
    /\ scriptMap = <<>>
    /\ exec = NoExec
    /\ free = 0
    /\ lock = FALSE
    /\ ctx = "live"
    /\ answer = NoAnswer
    /\ PoolIdle

(* Messages *)

NoContent ==
    [head |-> "", text |-> <<>>, tool |-> <<>>, details |-> "", args |-> "", hints |-> <<>>]

Text(t) == [NoContent EXCEPT !.head = t]

Msg(role, content) ==
    [role |-> role, content |-> content, nilCalls |-> TRUE, calls |-> <<>>, tcid |-> ""]

\* executeSkillWithTools: the system message built from the skill
SystemMessage(sk) == Msg("system", [Text("skill body and context") EXCEPT !.text = sk.path])

UserMessage(prompt) == Msg("user", [NoContent EXCEPT !.text = prompt])

\* the tool-role message written with the id of the first call of the batch
ToolMessageFirstId(tc, content) == [Msg("tool", content) EXCEPT !.tcid = "call-1"]

\* The tool-role message of one tool call
ToolMessage(tc, content) == [Msg("tool", content) EXCEPT !.tcid = tc.id]

\* continueSkillWithTools, lines 442-443: the message for a failed tool call
ErrorMsg(tc, err) ==
    [ head    |-> "Tool execution failed: ",
      text    |-> <<>>,
      tool    |-> tc.name,
      details |-> err,
      args    |-> tc.args,
      hints   |-> << "1. Retry with different parameters",
                     "2. Use a different tool to fix it",
                     "3. Modify your approach" >> ]

(* The environment: the model, the operator, the tools *)

\* The tool call of the scripted scenario
DefaultCall == [name |-> run_shell_code, args |-> ArgsValid]

\* The tool calls the model may ask for
Menu ==
    { DefaultCall,
      [name |-> read_file, args |-> ArgsMalformed],
      [name |-> duckduckgo_search, args |-> ArgsValid],
      [name |-> <<"r","u","n","_","d","_","s","h">>, args |-> ArgsEmpty],
      [name |-> <<"s","_","_","t">>, args |-> ArgsValid],
      [name |-> <<"s","_","_","t">>, args |-> ArgsMalformed] }

\* Free choices in one reply that carries a list of tool calls
BatchCost(b) ==
    LET other == Cardinality({i \in DOMAIN b : b[i] # DefaultCall})
    IN  IF other = 0 THEN 1 ELSE other

\* The batches the model may still ask for
Batches(left) ==
    {b \in UNION {[1..n -> Menu] : n \in 0..left} : BatchCost(b) <= left}

\* The ids the model gives the calls of one reply
CallIds == <<"call-1", "call-2", "call-3", "call-4", "call-5", "call-6">>

WithIds(b) == [i \in DOMAIN b |-> [id |-> CallIds[i], name |-> b[i].name, args |-> b[i].args]]

\* What the operator may type at the approval prompt
DefaultInput == Line(<< <<"y">> >>)

Inputs ==
    { DefaultInput, Line(<< <<"Y">> >>), Line(<< <<"n">> >>), Line(<<>>), EndOfInput }

InputCost(in) == IF in = DefaultInput THEN 0 ELSE 1

\* fmt.Scanln(&input): one word followed by the end of the line
Scanln(in) ==
    IF in.eof \/ Len(in.words) # 1
    THEN [err |-> TRUE, input |-> <<>>]
    ELSE [err |-> FALSE, input |-> in.words[1]]

\* strings.TrimSpace(s)
RECURSIVE TrimSpace(_)
TrimSpace(s) ==
    IF s = <<>> THEN s
    ELSE IF Head(s) = " " THEN TrimSpace(Tail(s))
    ELSE IF s[Len(s)] = " " THEN TrimSpace(SubSeq(s, 1, Len(s) - 1))
    ELSE s

\* the comparison of line 407 inverted
ApprovedInverted(input) == ToLower(TrimSpace(input)) # <<"y">>

\* continueSkillWithTools, line 407: the operator allowed the call
Approved(input) == ToLower(TrimSpace(input)) = <<"y">>

(* Operations *)

\* A turn may start: the first one, or a further one while free choices are left
MayStart == turns = 0 \/ free < MaxFree

StartCost == IF turns = 0 THEN 0 ELSE 1

\* continueSkillWithTools, lines 346-366: push the prompt, build the catalog,
\* enter the loop
Continue(history, prompt) ==
    /\ messages' = Append(history, UserMessage(prompt))
    /\ availableTools' = AvailableTools(skill, mcp)
    /\ scriptMap' = GenerateToolDefinitions(skill).scriptMap
    /\ pc' = "head"
    /\ iter' = 0
    /\ calls' = <<>>
    /\ idx' = 0
    /\ outcome' = "running"
    /\ turns' = turns + 1
    /\ free' = free + StartCost
    /\ lock' = FALSE

\* executeSkillWithTools, lines 332-339: the history with the system message
executeSkillWithToolsFresh(history) == <<SystemMessage(skill)>>

\* the turn begun without the system message
executeSkillWithToolsNoSystem(history) == history

executeSkillWithTools(history) == Append(history, SystemMessage(skill))

\* Agent.Run with a skill selected: executeSkillWithTools
Run ==
    /\ pc = "idle"
    /\ MayStart
    /\ mode' = "run"
    /\ Continue(executeSkillWithTools(messages), <<"p">>)
    /\ ctx' = "live"
    /\ UNCHANGED << poolVars, sel, web >>
    /\ UNCHANGED << cfg, skill, mcp, exec, answer >>

\* Agent.Run or Agent.RunLoop when selectAndPrepareSkill fails: the error is
\* returned before the history is touched
SelectFails ==
    /\ pc = "idle"
    /\ free < MaxFree
    /\ free' = free + 1
    /\ outcome' = "select_error"
    /\ UNCHANGED << poolVars, sel, web >>
    /\ UNCHANGED << cfg, skill, mcp, messages, pc, mode, iter, calls, idx, turns,
                    availableTools, scriptMap, exec, lock, ctx, answer >>

\* Agent.RunLoop with a skill selected: the first continueSkillWithTools
RunLoop ==
    /\ pc = "idle"
    /\ MayStart
    /\ mode' = "loop"
    /\ Continue(messages, <<"p">>)
    /\ ctx' = "live"
    /\ UNCHANGED << poolVars, sel, web >>
    /\ UNCHANGED << cfg, skill, mcp, exec, answer >>

\* the loop written with an inclusive bound: a 21st iteration begins
LoopGuardInclusive == iter <= MaxIterations

\* line 367, for range 20: another iteration begins
LoopGuard == iter < MaxIterations

\* the error is noted and the loop goes on with the next iteration
ReturnGoesOn(out) ==
    /\ outcome' = out
    /\ pc' = "head"
    /\ mode' = mode

\* continueSkillWithTools returns: Run returns to its caller, RunLoop goes on
\* to ask the operator
Return(out) ==
    /\ outcome' = out
    /\ pc' = IF mode = "run" THEN "idle" ELSE "ask"
    /\ mode' = IF mode = "run" THEN "none" ELSE mode

\* The caller cancels the context of the run while the loop is under way
Cancel ==
    /\ pc \in {"head", "call"} /\ ctx = "live"
    /\ ~lock /\ free < MaxFree
    /\ ctx' = "cancelled"
    /\ free' = free + 1
    /\ UNCHANGED << poolVars, sel, web >>
    /\ UNCHANGED << cfg, skill, mcp, messages, pc, mode, iter, calls, idx, outcome,
                    turns, availableTools, scriptMap, exec, lock, answer >>

\* line 375-378: the chat-completion request fails; with a cancelled context
\* CreateChatCompletion(ctx, req) can only fail
RequestError ==
    /\ pc = "head" /\ LoopGuard /\ ~lock
    /\ iter' = iter + 1
    /\ Return("llm_error")
    /\ UNCHANGED << poolVars, sel, web >>
    /\ UNCHANGED << cfg, skill, mcp, messages, calls, idx, turns, availableTools,
                    scriptMap, exec, free, lock, ctx, answer >>

\* line 381: the response has no choice, resp.Choices[0] panics
RequestNoChoice ==
    /\ pc = "head" /\ LoopGuard /\ ~lock /\ ctx = "live"
    /\ iter' = iter + 1
    /\ pc' = "crashed"
    /\ outcome' = "panic"
    /\ UNCHANGED << poolVars, sel, web >>
    /\ UNCHANGED << cfg, skill, mcp, messages, mode, calls, idx, turns,
                    availableTools, scriptMap, exec, free, lock, ctx, answer >>

\* lines 381-387: the reply has ToolCalls == nil, it is the final answer
RequestFinal ==
    /\ pc = "head" /\ LoopGuard /\ ~lock /\ ctx = "live"
    /\ iter' = iter + 1
    /\ messages' = Append(messages, Msg("assistant", Text("answer")))
    /\ Return("final")
    /\ UNCHANGED << poolVars, sel, web >>
    /\ UNCHANGED << cfg, skill, mcp, calls, idx, turns, availableTools, scriptMap,
                    exec, free, lock, ctx, answer >>

\* The replies with tool calls the model may give, each with what it costs the
\* environment and whether the scripted scenario begins (or goes on) with it
Replies ==
    IF lock THEN { [batch |-> <<DefaultCall>>, cost |-> 0, lock |-> TRUE] }
    ELSE { [batch |-> b, cost |-> BatchCost(b), lock |-> FALSE] : b \in Batches(MaxFree - free) }
         \cup (IF free < MaxFree
               THEN { [batch |-> <<DefaultCall>>, cost |-> 1, lock |-> TRUE] }
               ELSE {})

\* lines 381-389: the reply carries a (non-nil) list of tool calls
RequestToolCalls ==
    /\ pc = "head" /\ LoopGuard /\ ctx = "live"
    /\ \E r \in Replies :
          /\ iter' = iter + 1
          /\ messages' = Append(messages,
                 [Msg("assistant", Text("")) EXCEPT !.nilCalls = FALSE,
                                                   !.calls = WithIds(r.batch)])
          /\ calls' = WithIds(r.batch)
          /\ free' = free + r.cost
          /\ lock' = r.lock
          /\ IF r.batch = <<>>
             THEN pc' = "head" /\ idx' = 0
             ELSE pc' = "call" /\ idx' = 1
    /\ UNCHANGED << poolVars, sel, web >>
    /\ UNCHANGED << cfg, skill, mcp, mode, outcome, turns, availableTools, scriptMap,
                    exec, ctx, answer >>

\* line 458: the loop ran out of iterations
LimitExceeded ==
    /\ pc = "head" /\ ~LoopGuard
    /\ Return("limit")
    /\ UNCHANGED << poolVars, sel, web >>
    /\ UNCHANGED << cfg, skill, mcp, messages, iter, calls, idx, turns,
                    availableTools, scriptMap, exec, free, lock, ctx, answer >>

\* the loop over msg.ToolCalls left after one call
NextCallBreaks(spent) ==
    /\ free' = free + spent
    /\ idx' = 0 /\ pc' = "head"

\* the loop over msg.ToolCalls stepping over every other call
NextCallSkipsOne(spent) ==
    /\ free' = free + spent
    /\ IF idx + 1 < Len(calls)
       THEN idx' = idx + 2 /\ pc' = "call"
       ELSE idx' = 0 /\ pc' = "head"

\* The loop over msg.ToolCalls moves on: the next call, or the loop head
NextCall(spent) ==
    /\ free' = free + spent
    /\ IF idx < Len(calls)
       THEN idx' = idx + 1 /\ pc' = "call"
       ELSE idx' = 0 /\ pc' = "head"

\* The operator inputs the environment may still give
InputsLeft == IF lock \/ free >= MaxFree THEN {DefaultInput} ELSE Inputs

\* lines 394-406: the approval input cannot be scanned
ApprovalScanFails ==
    /\ pc = "call" /\ ~cfg.AutoApproveTools
    /\ \E in \in InputsLeft :
          /\ Scanln(in).err
          /\ messages' = Append(messages,
                 ToolMessage(calls[idx], Text("Error: Input scanning failed.")))
          /\ exec' = [NoExec EXCEPT !.tc = calls[idx], !.asked = TRUE, !.input = in]
          /\ NextCall(InputCost(in))
    /\ UNCHANGED << poolVars, sel, web >>
    /\ UNCHANGED << cfg, skill, mcp, mode, iter, calls, outcome, turns,
                    availableTools, scriptMap, lock, ctx, answer >>

\* lines 407-415: the operator does not allow the call
ApprovalDenied ==
    /\ pc = "call" /\ ~cfg.AutoApproveTools
    /\ \E in \in InputsLeft :
          /\ ~Scanln(in).err
          /\ ~Approved(Scanln(in).input)
          /\ messages' = Append(messages,
                 ToolMessage(calls[idx], Text("Error: User denied tool execution.")))
          /\ exec' = [NoExec EXCEPT !.tc = calls[idx], !.asked = TRUE, !.input = in]
          /\ NextCall(InputCost(in))
    /\ UNCHANGED << poolVars, sel, web >>
    /\ UNCHANGED << cfg, skill, mcp, mode, iter, calls, outcome, turns,
                    availableTools, scriptMap, lock, ctx, answer >>

\* lines 427 and 436: only mcpClient.CallTool is handed the context of the
\* run, executeToolCall is not; a remote call under a cancelled context fails
Aborted(route) == route.kind = "mcp" /\ ctx = "cancelled"

\* The results a routed call may have: a call that reaches a tool succeeds or fails
Results(route, left) ==
    IF ~Executes(route) THEN {"none"}
    ELSE IF Aborted(route) THEN {"fail"}
    ELSE IF left > 0 THEN {"ok", "fail"} ELSE {"ok"}

ResultCost(route, result) == IF result = "fail" /\ ~Aborted(route) THEN 1 ELSE 0

\* lines 418-455: the tool-role message for a dispatched call
DispatchMessage(tc, route, result) ==
    IF route.kind = "mcp_unmarshal"
    THEN ToolMessage(tc, Text("Error unmarshalling arguments: "))
    ELSE IF route.kind = "error"
    THEN ToolMessage(tc, ErrorMsg(tc, route.err))
    ELSE IF result = "fail"
    THEN ToolMessage(tc, ErrorMsg(tc, "tool execution failed"))
    ELSE ToolMessage(tc, Text("tool output"))

\* lines 394-455: the call is allowed (or needs no approval) and is dispatched
DispatchTool ==
    /\ pc = "call"
    /\ \E in \in (IF cfg.AutoApproveTools THEN {Line(<<>>)} ELSE InputsLeft) :
          /\ ~cfg.AutoApproveTools => (~Scanln(in).err /\ Approved(Scanln(in).input))
          /\ LET tc == calls[idx]
                 route == Route(tc, scriptMap, mcp)
                 spent == IF cfg.AutoApproveTools THEN 0 ELSE InputCost(in)
                 left == IF lock THEN 0 ELSE MaxFree - free - spent
             IN  \E result \in Results(route, left) :
                    /\ messages' = Append(messages, DispatchMessage(tc, route, result))
                    /\ exec' = [tc |-> tc, asked |-> ~cfg.AutoApproveTools, input |-> in,
                                route |-> route, result |-> result]
                    /\ NextCall(spent + ResultCost(route, result))
    /\ UNCHANGED << poolVars, sel, web >>
    /\ UNCHANGED << cfg, skill, mcp, mode, iter, calls, outcome, turns,
                    availableTools, scriptMap, lock, ctx, answer >>

\* What the operator may type after a turn of RunLoop
Answers == { <<"N">>, <<"n">>, <<"y">>, <<"Y">>, <<"g","o">>, <<>> }

\* What the operator may type at "Next prompt: "
NextPrompts == { <<"q">>, <<"n">> }

\* the comparison made letter by letter, upper and lower case distinct
EqualFoldExact(a, b) == a = b

\* strings.EqualFold on ASCII text
EqualFold(a, b) == ToLower(a) = ToLower(b)

\* reader.ReadString('\n') at "Continue in loop?": a line the operator
\* typed, or nothing when stdin is at its end; the error is dropped, and
\* once stdin is at its end every later read finds it there
ReadAnswer ==
    IF answer.eof
    THEN { [text |-> <<>>, eof |-> TRUE] }
    ELSE { [text |-> a, eof |-> FALSE] : a \in Answers }
             \cup { [text |-> <<>>, eof |-> TRUE] }

\* reader.ReadString('\n') at "Next prompt: "
ReadNextPrompt ==
    IF answer.eof
    THEN { [text |-> <<>>, eof |-> TRUE] }
    ELSE { [text |-> a, eof |-> FALSE] : a \in NextPrompts }
             \cup { [text |-> <<>>, eof |-> TRUE] }

\* RunLoop, lines 105-111: the operator ends the session
LoopEnds ==
    /\ pc = "ask"
    /\ \E rd \in ReadAnswer :
          /\ EqualFold(TrimSpace(rd.text), <<"N">>)
          /\ answer' = [NoAnswer EXCEPT !.line = rd.text, !.read = TRUE, !.eof = rd.eof]
          /\ pc' = "idle"
          /\ mode' = "none"
    /\ UNCHANGED << poolVars, sel, web >>
    /\ UNCHANGED << cfg, skill, mcp, messages, iter, calls, idx, outcome, turns,
                    availableTools, scriptMap, exec, free, lock, ctx >>

\* RunLoop, lines 113-119 and 97: the next turn of the session
LoopContinues ==
    /\ pc = "ask"
    /\ MayStart
    /\ \E rd \in ReadAnswer :
          /\ ~EqualFold(TrimSpace(rd.text), <<"N">>)
          /\ IF EqualFold(TrimSpace(rd.text), <<"y">>)
             THEN \E next \in ReadNextPrompt :
                    /\ answer' = [line |-> rd.text, asked |-> TRUE, next |-> next.text,
                                  read |-> TRUE, eof |-> next.eof]
                    /\ Continue(messages, TrimSpace(next.text))
             ELSE /\ answer' = [NoAnswer EXCEPT !.line = rd.text, !.read = TRUE,
                                                !.eof = rd.eof]
                  /\ Continue(messages, TrimSpace(rd.text))
    /\ UNCHANGED << poolVars, sel, web >>
    /\ UNCHANGED << cfg, skill, mcp, mode, exec, ctx >>

Next ==
    \/ Run
    \/ RunLoop
    \/ SelectFails
    \/ Cancel
    \/ RequestError
    \/ RequestNoChoice
    \/ RequestFinal
    \/ RequestToolCalls
    \/ LimitExceeded
    \/ ApprovalScanFails
    \/ ApprovalDenied
    \/ DispatchTool
    \/ LoopEnds
    \/ LoopContinues

Spec == Init /\ [][Next]_vars

----------------------------------------------------------------------------
(* Properties of the tool loop *)

\* A turn of the tool loop has returned to its caller
Returned == pc \in {"idle", "ask"} /\ turns > 0 /\ outcome # "select_error"

Answered(h) ==
    \A i \in DOMAIN h :
        (h[i].role = "assistant" /\ Len(h[i].calls) > 0) =>
            LET n == Len(h[i].calls)
            IN  /\ i + n <= Len(h)
                /\ \A k \in 1..n : /\ h[i + k].role = "tool"
                                     /\ h[i + k].tcid = h[i].calls[k].id
                /\ i + n + 1 <= Len(h) => h[i + n + 1].role # "tool"

\* C2: whenever the loop is about to issue a chat-completion request and
\* whenever a turn has returned, every assistant message with tool calls is
\* answered by exactly one tool-role message per call with that call's id.
C2_ToolCallsAnswered ==
    (pc \in {"head", "idle", "ask"}) => Answered(messages)

\* a returned turn whose history holds a batch of two calls, the first denied
\* by the operator, the second executed and failed
C2_Witness ==
    /\ pc \in {"idle", "ask"}
    /\ \E i \in DOMAIN messages :
          /\ Len(messages[i].calls) = 2
          /\ i + 2 <= Len(messages)
          /\ messages[i + 1].content.head = "Error: User denied tool execution."
          /\ messages[i + 2].content.head = "Tool execution failed: "

\* The step is one pass of the loop over msg.ToolCalls: it processes the call
\* at idx and moves on
CallStep == pc = "call" /\ (idx' # idx \/ pc' # pc)

\* The step processes a tool call and the call fails: it is denied, its input
\* cannot be read, it cannot be routed, its arguments are malformed, or the
\* tool or the remote call fails
CallFails ==
    /\ CallStep
    /\ \/ exec'.asked /\ exec'.route.kind = "none"
       \/ exec'.route.kind \in {"error", "mcp_unmarshal"}
       \/ exec'.result = "fail"

\* C3: a failing tool call does not end the turn: the turn stays running, and
\* the loop goes on to the next call of the batch or, after the last call, to
\* the loop head, from where the next chat-completion request is issued
\* (while iterations are left).
C3_FailureDoesNotAbort ==
    [][ CallFails =>
          /\ outcome = "running" /\ outcome' = "running"
          /\ mode' = mode
          /\ Len(messages') = Len(messages) + 1
          /\ IF idx < Len(calls)
             THEN pc' = "call" /\ idx' = idx + 1
             ELSE pc' = "head" /\ iter' = iter ]_vars

\* the first call of a batch of two has failed as an unknown tool and the
\* loop is at the second call
C3_Witness ==
    /\ pc = "call" /\ idx = 2
    /\ exec.route.err = "unknown tool"
    /\ outcome = "running"

\* The step dispatches a tool call and the dispatch fails: the arguments
\* cannot be decoded, the name has no route, or the tool or remote call fails
DispatchFails ==
    /\ CallStep
    /\ \/ exec'.route.kind \in {"error", "mcp_unmarshal"}
       \/ exec'.result = "fail"

\* The three recovery suggestions of the structured error message
Suggestions ==
    << "1. Retry with different parameters",
       "2. Use a different tool to fix it",
       "3. Modify your approach" >>

\* The structured tool-error message for call tc
Structured(m, tc) ==
    /\ m.role = "tool"
    /\ m.tcid = tc.id
    /\ m.content.head = "Tool execution failed: "
    /\ m.content.tool = tc.name
    /\ m.content.args = tc.args
    /\ m.content.details # ""
    /\ m.content.hints = Suggestions

\* C4: for every dispatch failure the step appends one tool-role message with
\* the call's id whose content names the tool, gives the error details, echoes
\* the raw arguments and lists the three recovery suggestions.
C4_StructuredError ==
    [][ DispatchFails =>
          /\ messages' = Append(messages, messages'[Len(messages')])
          /\ Structured(messages'[Len(messages')], exec'.tc) ]_vars

\* The operator's answer at the approval prompt is y, in either case
AnsweredYes(in) ==
    /\ ~in.eof
    /\ in.words \in { << <<"y">> >>, << <<"Y">> >> }

\* C5 as stated: with auto-approval off a call is dispatched only after the
\* operator answered y; for any other answer the tool is not executed, a
\* tool-role message "Error: User denied tool execution." with the call's id
\* is appended, and the loop goes on with the next call.
C5_DeniedUnlessYes ==
    [][ (CallStep /\ ~cfg.AutoApproveTools) =>
          /\ exec'.asked /\ exec'.tc = calls[idx]
          /\ exec'.route.kind # "none" => AnsweredYes(exec'.input)
          /\ ~AnsweredYes(exec'.input) =>
                /\ exec'.route.kind = "none" /\ exec'.result = "none"
                /\ messages' = Append(messages,
                       ToolMessage(calls[idx], Text("Error: User denied tool execution.")))
                /\ outcome' = outcome
                /\ IF idx < Len(calls) THEN pc' = "call" /\ idx' = idx + 1
                                        ELSE pc' = "head" ]_vars

\* C5 amended: with auto-approval off a call is dispatched only after the
\* operator answered y; for any other answer the tool is not executed, one
\* tool-role message with the call's id is appended, and the loop goes on with
\* the next call. The message is "Error: User denied tool execution." when the
\* answer is a word other than y, and "Error: Input scanning failed." when no
\* word can be read (an empty line, the end of the input).
C5_NotRunUnlessYes ==
    [][ (CallStep /\ ~cfg.AutoApproveTools) =>
          /\ exec'.asked /\ exec'.tc = calls[idx]
          /\ exec'.route.kind # "none" => AnsweredYes(exec'.input)
          /\ ~AnsweredYes(exec'.input) =>
                /\ exec'.route.kind = "none" /\ exec'.result = "none"
                /\ messages' = Append(messages,
                       ToolMessage(calls[idx],
                           Text(IF ~exec'.input.eof /\ Len(exec'.input.words) = 1
                                THEN "Error: User denied tool execution."
                                ELSE "Error: Input scanning failed.")))
                /\ outcome' = outcome
                /\ IF idx < Len(calls) THEN pc' = "call" /\ idx' = idx + 1
                                        ELSE pc' = "head" ]_vars

\* the operator answered n to the first call of a batch: the call was not
\* executed, the denial is in the history, and the loop is at the second call
C5_Witness ==
    /\ ~cfg.AutoApproveTools
    /\ exec.asked /\ exec.input = Line(<< <<"n">> >>) /\ exec.route.kind = "none"
    /\ messages[Len(messages)].content.head = "Error: User denied tool execution."
    /\ pc = "call" /\ idx = 2

\* a is a prefix of b
IsPrefix(a, b) == Len(a) <= Len(b) /\ SubSeq(b, 1, Len(a)) = a

\* C6: the message history is only ever appended to: no step removes,
\* reorders or rewrites a message, within a turn or from one turn to the next.
C6_AppendOnly == [][ IsPrefix(messages, messages') ]_vars

\* a second turn is under way on top of the history of the first
C6_Witness ==
    /\ turns = 2 /\ outcome = "running"
    /\ \E i \in DOMAIN messages : i > 1 /\ messages[i].role = "system"

SystemAt(h) == {i \in DOMAIN h : h[i].role = "system"}

\* C7: once a skill has been chosen and a turn has begun, the history holds
\* exactly one system message, and it is the first message.
C7_OneSystemMessageFirst ==
    turns > 0 => SystemAt(messages) = {1}

----------------------------------------------------------------------------
(* The catalog and the dispatch on their own, over a range of skills *)

deploy_sh == <<"d","e","p","l","o","y",".","s","h">>
test_py == <<"s","/","t",".","p","y">>

\* allowed-tools lists of the skills: none, two base tools, one base tool, a
\* name that is no base tool
CatalogAllowed ==
    { <<>>, << read_file, write_file >>, << read_file >>, << <<"x">> >> }

\* script lists of the skills; the third and fourth give one tool name to two
\* scripts, and the name of a base tool to a script; the last has a capital,
\* digits, a dot, a space and an at sign
CatalogScripts ==
    { <<>>, << deploy_sh >>, << test_py, deploy_sh >>,
      << <<"a","-","b">>, <<"a","_","b">> >>,
      << <<"s","h","e","l","l","_","s","c","r","i","p","t">> >>,
      << <<"V","1",".","0"," ","@">>, test_py >> }

CatalogSkills ==
    { [path |-> <<"/","k">>, allowed |-> a, scripts |-> s] :
          a \in CatalogAllowed, s \in CatalogScripts }

\* no MCP configuration was given: Agent.mcpClient is nil
NoMcp == [present |-> FALSE, servers |-> <<>>, sessions |-> <<>>]

\* a client whose server names and remote tool names are not plain words:
\* a hyphen in a server name, an underscore at the end of one, and a remote
\* tool with a double underscore in its name
OddMcp ==
    [ present  |-> TRUE,
      servers  |-> << <<"m","-","s">>, <<"s","_">> >>,
      sessions |-> << [name |-> <<"m","-","s">>,
                       tools |-> << <<"t">>, <<"u","_","_","v">> >>],
                      [name |-> <<"s","_">>, tools |-> << <<"t">> >>] >> ]

CatalogMcps == { NoMcp, LoopMcp, OddMcp }

InitCatalog ==
    /\ cfg = [AutoApproveTools |-> TRUE]
    /\ skill \in CatalogSkills
    /\ mcp \in CatalogMcps
    /\ messages = <<>>
    /\ pc = "idle"
    /\ mode = "none"
    /\ iter = 0
    /\ calls = <<>>
    /\ idx = 0
    /\ outcome = "none"
    /\ turns = 0
    /\ availableTools = <<>>
    /\ scriptMap = <<>>
    /\ exec = NoExec
    /\ free = 0
    /\ lock = FALSE
    /\ ctx = "live"
    /\ answer = NoAnswer
    /\ PoolIdle

\* continueSkillWithTools, lines 351-363: the catalog and the script map
BuildCatalog ==
    /\ pc = "idle"
    /\ availableTools' = AvailableTools(skill, mcp)
    /\ scriptMap' = GenerateToolDefinitions(skill).scriptMap
    /\ pc' = "built"
    /\ UNCHANGED << poolVars, sel, web >>
    /\ UNCHANGED << cfg, skill, mcp, messages, mode, iter, calls, idx, outcome,
                    turns, exec, free, lock, ctx, answer >>

\* names the model may call: the offered ones, the names executeToolCall
\* knows, and one that was never offered
CallableNames == Range(availableTools) \cup BuiltinOps \cup { <<"z">> }

\* continueSkillWithTools, lines 418-437: one tool call is routed
DispatchCall ==
    /\ pc = "built"
    /\ \E name \in CallableNames, args \in {ArgsValid, ArgsMalformed, ArgsEmpty} :
          LET tc == [id |-> "call-1", name |-> name, args |-> args]
              route == Route(tc, scriptMap, mcp)
          IN  \E result \in Results(route, 1) :
                 exec' = [tc |-> tc, asked |-> FALSE, input |-> Line(<<>>),
                          route |-> route, result |-> result]
    /\ UNCHANGED << poolVars, sel, web >>
    /\ UNCHANGED << cfg, skill, mcp, messages, pc, mode, iter, calls, idx, outcome,
                    turns, availableTools, scriptMap, free, lock, ctx, answer >>

NextCatalog == BuildCatalog \/ DispatchCall

SpecCatalog == InitCatalog /\ [][NextCatalog]_vars

\* C8: in the catalog sent with every request, tool names are pairwise unique.
C8_NamesUnique ==
    \A i, j \in DOMAIN availableTools :
        i # j => availableTools[i] # availableTools[j]

\* The binding of the offered tool n: that built-in operation, the script the
\* name was generated from, or the server and remote tool the name is made of
BindingOf(n, route) ==
    \/ /\ route.kind = "builtin"
       /\ n \in Range(GetBaseTools) /\ route.target = n
    \/ /\ route.kind = "script"
       /\ \E i \in DOMAIN skill.scripts :
             /\ generateScriptTool(skill.scripts[i]) = n
             /\ route.target = JoinPath(skill.path, skill.scripts[i])
    \/ /\ route.kind = "mcp"
       /\ \E i \in DOMAIN mcp.sessions : \E j \in DOMAIN mcp.sessions[i].tools :
             /\ n = mcp.sessions[i].name \o <<"_","_">> \o mcp.sessions[i].tools[j]
             /\ route.target = mcp.sessions[i].name \o <<"/">> \o mcp.sessions[i].tools[j]

\* C9: a tool call that uses a name offered in the catalog, with well-formed
\* arguments, is routed to the binding of that same tool, and never fails as
\* an unknown tool or an unknown server.
C9_OfferedNamesDispatch ==
    (/\ exec.tc.name \in Range(availableTools)
     /\ UnmarshalOk(exec.tc.args)
     /\ exec.route.kind # "none") =>
        /\ exec.route.kind # "error"
        /\ BindingOf(exec.tc.name, exec.route)

\* The catalog a skill and an MCP client are to give: the base tools the
\* skill allows (all of them when it names none), the script tools, the
\* remote tools
ExpectedCatalog(sk, m) ==
    { n \in Range(GetBaseTools) : sk.allowed = <<>> \/ n \in Range(sk.allowed) }
        \cup { generateScriptTool(sk.scripts[i]) : i \in DOMAIN sk.scripts }
        \cup (IF m.present THEN Range(McpGetTools(m.sessions)) ELSE {})

\* C10: the catalog offered to the model holds, of the base tools, only those
\* the skill's allowed_tools names when that list is non-empty, and all of
\* them when it is empty, next to the script tools and the remote tools; the
\* skill allowing read_file and write_file with the one script deploy.sh is
\* offered read_file, write_file and run_deploy_sh and nothing else.
C10_AllowedToolsFilter ==
    pc \in {"built", "head", "call"} =>
        Range(availableTools) = ExpectedCatalog(skill, mcp)

----------------------------------------------------------------------------
(* Further properties of the agent *)

\* The step is a chat-completion request that returns an error
RequestFails == pc = "head" /\ iter' = iter + 1 /\ outcome' = "llm_error"

\* C11: when a chat-completion request of the tool loop returns an error, the
\* turn stops at once with the wrapped error 'ChatCompletion error: ...': the
\* step appends nothing and processes no tool call, and afterwards the turn
\* is over, so that it executes no further tool call and issues no further
\* request.
C11_RequestErrorAborts ==
    /\ [][ RequestFails =>
             /\ messages' = messages
             /\ exec' = exec
             /\ pc' \in {"idle", "ask"} ]_vars
    /\ [](outcome = "llm_error" => pc \in {"idle", "ask"})

\* a request failed after an iteration with a tool call, and the run returned
C11_Witness ==
    /\ outcome = "llm_error" /\ pc = "idle"
    /\ iter = 2
    /\ messages[Len(messages)].role = "tool"

\* C12: in a run_loop session the system prompt is composed once, when the
\* session begins and the skill has been selected; every later prompt only
\* runs the tool loop: the resolved skill is the same, and the history is the
\* earlier history with the new user message appended.
C12_LoopComposesOnce ==
    /\ [][ (mode # "loop" /\ mode' = "loop") =>
             \E i \in (Len(messages) + 1)..Len(messages') :
                 messages'[i].role = "system" ]_vars
    /\ [][ (pc = "ask" /\ pc' = "head") =>
             /\ skill' = skill
             /\ scriptMap' = scriptMap
             /\ Len(messages') = Len(messages) + 1
             /\ SubSeq(messages', 1, Len(messages)) = messages
             /\ messages'[Len(messages')].role = "user" ]_vars

\* The prompt of the turn the step begins
Begins(prompt) ==
    /\ pc' = "head" /\ mode' = "loop"
    /\ messages' = Append(messages, UserMessage(prompt))

\* C13: after each turn of run_loop one line is read and decides what comes
\* next: n or N ends the session; y or Y makes the runtime ask for the next
\* prompt, read it and begin a turn with it; any other line is itself the
\* prompt of the next turn, and nothing more is read.
C13_LoopAnswer ==
    [][ (pc = "ask" /\ pc' # "ask") =>
          /\ answer'.read
          /\ LET line == answer'.line
             IN  IF line \in { <<"n">>, <<"N">> }
                 THEN /\ pc' = "idle" /\ mode' = "none"
                      /\ messages' = messages
                      /\ ~answer'.asked
                 ELSE IF line \in { <<"y">>, <<"Y">> }
                 THEN answer'.asked /\ Begins(answer'.next)
                 ELSE ~answer'.asked /\ Begins(line) ]_vars

\* the operator typed n at "Next prompt:" after answering Y: a turn with the
\* prompt n is under way
C13_Witness ==
    /\ answer.line = <<"Y">> /\ answer.asked /\ answer.next = <<"n">>
    /\ pc = "head" /\ mode = "loop"
    /\ messages[Len(messages)] = UserMessage(<<"n">>)

\* C16: once the context of the run is cancelled the loop executes no
\* further tool call, and the turn it was in returns the cancellation, which
\* reaches the caller as the error of the aborted chat-completion request.
C16_CancelStopsRun ==
    /\ [][ (ctx = "cancelled" /\ CallStep) => ~Executes(exec'.route) ]_vars
    /\ []((ctx = "cancelled" /\ Returned) => outcome = "llm_error")

\* A single-shot run on a new agent has returned
SingleShotReturned ==
    /\ turns = 1 /\ pc = "idle" /\ ~answer.read
    /\ outcome \in {"final", "limit"}

\* The model asked for exactly one tool call in every reply
OneCallPerReply ==
    \A i \in DOMAIN messages :
        messages[i].role = "assistant" => Len(messages[i].calls) = 1

----------------------------------------------------------------------------
(* The MCP client: construction, CallTool with retry and reconnection, Close *)

\* Invocations of CallTool on one client
MaxCalls == 2

\* NewClient: Default to 3 retries
DefaultRetries == 3

agentVars == << cfg, skill, mcp, messages, pc, mode, iter, calls, idx, outcome,
                turns, availableTools, scriptMap, exec, free, lock, ctx, answer,
                sel, web >>

\* config.MaxRetries as the configuration file may give it
PoolMaxRetries == { -1, 0, 1, 2 }

\* The one tool every server exposes
RemoteTool == <<"t">>

\* "<server>__<tool>"
McpName(server, tool) == server \o <<"_","_">> \o tool

\* The names CallTool may be called with: a tool of each configured server, a
\* tool of a server that is not configured, a name without separator
PoolToolNames ==
    { McpName(ServerA, RemoteTool), McpName(ServerB, RemoteTool),
      McpName(<<"c">>, RemoteTool), <<"x">>, <<>>,
      McpName(ServerA, McpName(RemoteTool, <<"u">>)),
      McpName(ServerA, <<"_">> \o RemoteTool), McpName(<<>>, RemoteTool) }

\* every server taken to have a session
HeldAlways(server) == TRUE

\* The session the client holds for a server
Held(server) == client.sessions[server] # 0
SessionOf(server) == << server, client.sessions[server] >>
HeldSessions == { SessionOf(s) : s \in { t \in PoolServers : Held(t) } }

InitPool ==
    /\ cfg = [AutoApproveTools |-> TRUE]
    /\ skill = LoopSkill
    /\ mcp = NoMcp
    /\ messages = <<>>
    /\ pc = "idle"
    /\ mode = "none"
    /\ iter = 0
    /\ calls = <<>>
    /\ idx = 0
    /\ outcome = "none"
    /\ turns = 0
    /\ availableTools = <<>>
    /\ scriptMap = <<>>
    /\ exec = NoExec
    /\ free = 0
    /\ lock = FALSE
    /\ ctx = "live"
    /\ answer = NoAnswer
    /\ config \in [MaxRetries : PoolMaxRetries, servers : {PoolServers}]
    /\ client = NoClient
    /\ conn \in { [NoConn EXCEPT !.reachable = r] : r \in SUBSET PoolServers }
    /\ ct = NoCallTool
    /\ sel = NoSel
    /\ web = NoWeb

\* the construction given up when one server cannot be reached
connectAllOrNone(servers, reachable) ==
    IF servers \subseteq reachable THEN servers ELSE {}

\* NewClient, lines 37-42: the servers that get a session; a failed
\* connectToServer is logged and the loop goes on
connectAll(servers, reachable) == servers \cap reachable

\* NewClient, lines 26-29
EffectiveRetries(n) == IF n <= 0 THEN DefaultRetries ELSE n

\* NewClient
NewClient ==
    /\ ~client.built
    /\ LET connected == connectAll(config.servers, conn.reachable)
       IN  /\ client' = [built |-> TRUE, err |-> "",
                         maxRetries |-> EffectiveRetries(config.MaxRetries),
                         sessions |-> [s \in PoolServers |->
                                          IF s \in connected THEN 1 ELSE 0]]
           /\ conn' = [conn EXCEPT !.created =
                           [s \in PoolServers |-> IF s \in connected THEN 1 ELSE 0]]
    /\ UNCHANGED << config, ct >>
    /\ UNCHANGED agentVars

\* Client.GetTools when every ListTools succeeds
PoolGetTools ==
    McpGetTools(
        (IF Held(ServerA) THEN << [name |-> ServerA, tools |-> <<RemoteTool>>] >> ELSE <<>>)
        \o (IF Held(ServerB) THEN << [name |-> ServerB, tools |-> <<RemoteTool>>] >> ELSE <<>>))

\* CallTool returns
CallToolReturns(frame, err) == [frame EXCEPT !.pc = "done", !.err = err]

\* CallTool, lines 149-157: the name is parsed and the server looked up
CallToolBegin ==
    /\ client.built /\ ~conn.shut.done
    /\ ct.pc \in {"idle", "done"}
    /\ conn.calls < MaxCalls
    /\ \E name \in PoolToolNames :
          LET p == parseToolName(name)
              frame == [NoCallTool EXCEPT !.name = name, !.server = p.server,
                                          !.tool = p.tool]
          IN  ct' = IF ~p.ok
                    THEN CallToolReturns(frame, "invalid tool name format")
                    ELSE IF p.server \notin config.servers
                    THEN CallToolReturns(frame, "server not found in config")
                    ELSE [frame EXCEPT !.pc = "loop"]
    /\ conn' = [conn EXCEPT !.calls = @ + 1]
    /\ UNCHANGED << config, client >>
    /\ UNCHANGED agentVars

\* The result of a remote call that succeeded
RemoteOk == <<"ok">>

\* Error messages of a remote call, word by word
RemoteErrors ==
    { <<"EOF">>, <<"connection", "closed">>, <<"write", "broken", "pipe">>,
      <<"read", "connection", "reset", "by", "peer">>,
      <<"context", "canceled">>, <<"unknown", "tool">> }

\* every error taken for a connection error
isConnectionErrorAny(errMsg) == TRUE

\* isConnectionError: the message contains one of the four phrases
isConnectionError(errMsg) ==
    \/ Contains(errMsg, <<"connection", "closed">>)
    \/ Contains(errMsg, <<"EOF">>)
    \/ Contains(errMsg, <<"broken", "pipe">>)
    \/ Contains(errMsg, <<"connection", "reset">>)

\* What session.CallTool may give: a result or an error; a closed session
\* gives no result
RemoteResults(session) ==
    IF session \in conn.closed THEN RemoteErrors ELSE {RemoteOk} \cup RemoteErrors

\* the reconnection attempted after the last attempt as well
MayReconnectAlways(i, maxRetries) == i < maxRetries

\* CallTool, line 185: retries are left after attempt i
MayReconnect(i, maxRetries) == i < maxRetries - 1

\* CallTool, lines 159-182 and 199-204: one pass of the retry loop up to the
\* backoff, or the end of the loop
CallToolAttempt ==
    /\ ct.pc = "loop"
    /\ IF ct.i >= client.maxRetries
       THEN /\ ct' = [CallToolReturns(ct, "failed to call tool after retries")
                         EXCEPT !.reported = client.maxRetries]
            /\ conn' = conn
       ELSE IF ~Held(ct.server)
       THEN /\ ct' = CallToolReturns(ct, "server session not found")
            /\ conn' = conn
       ELSE \E res \in RemoteResults(SessionOf(ct.server)) :
              LET called == [ct EXCEPT !.attempts = @ + 1, !.last = res,
                                       !.usedClosed = SessionOf(ct.server) \in conn.closed]
              IN  IF res = RemoteOk
                  THEN ct' = CallToolReturns(called, "") /\ conn' = conn
                  ELSE IF ~isConnectionError(res)
                  THEN ct' = CallToolReturns(called, "failed to call tool") /\ conn' = conn
                  ELSE /\ conn' = [conn EXCEPT !.closed = @ \cup {SessionOf(ct.server)}]
                       /\ ct' = IF MayReconnect(ct.i, client.maxRetries)
                                THEN [called EXCEPT !.connErrs = @ + 1, !.pc = "wait"]
                                ELSE CallToolReturns([called EXCEPT !.connErrs = @ + 1],
                                                     "failed to call tool")
    /\ UNCHANGED << config, client >>
    /\ UNCHANGED agentVars

\* CallTool, lines 186-188: time.Sleep(time.Second * (i+1))
Backoff ==
    /\ ct.pc = "wait"
    /\ ct' = [ct EXCEPT !.pc = "reconnect", !.waited = @ + ct.i + 1]
    /\ UNCHANGED << config, client, conn >>
    /\ UNCHANGED agentVars

\* CallTool, lines 191-196, with connectToServer: a new session replaces the
\* entry of the server, or the entry stays as it is; the next pass begins
Reconnect ==
    /\ ct.pc = "reconnect"
    /\ \E ok \in BOOLEAN :
          IF ok
          THEN /\ conn' = [conn EXCEPT !.created[ct.server] = @ + 1]
               /\ client' = [client EXCEPT !.sessions[ct.server] =
                                               conn.created[ct.server] + 1]
          ELSE conn' = conn /\ client' = client
    /\ ct' = [ct EXCEPT !.pc = "loop", !.i = @ + 1, !.reconnects = @ + 1]
    /\ UNCHANGED config
    /\ UNCHANGED agentVars

\* the failures of session.Close dropped
CloseErrorNone(failed) == [nil |-> TRUE, errs |-> {}]

\* Close, lines 113-116: the aggregated error
CloseError(failed) == [nil |-> failed = {}, errs |-> failed]

\* Client.Close
Close ==
    /\ client.built /\ ~conn.shut.done
    /\ ct.pc \in {"idle", "done"}
    /\ \E failed \in SUBSET HeldSessions :
          conn' = [conn EXCEPT !.closed = @ \cup HeldSessions,
                               !.shut = [done |-> TRUE, failed |-> failed,
                                         err |-> CloseError(failed)]]
    /\ UNCHANGED << config, client, ct >>
    /\ UNCHANGED agentVars

NextPool ==
    \/ NewClient
    \/ CallToolBegin
    \/ CallToolAttempt
    \/ Backoff
    \/ Reconnect
    \/ Close

SpecPool == InitPool /\ [][NextPool]_vars

----------------------------------------------------------------------------
(* Properties of the MCP client *)

\* C14: building the pool never fails: NewClient returns a client and no
\* error whichever servers cannot be reached; a server whose connection fails
\* gets no session, and every configured server that can be reached gets a
\* session of its own, whose tool is listed by GetTools and for which
\* CallTool finds server and session.
C14_PoolBuiltDespiteFailures ==
    client.built =>
        /\ client.err = ""
        /\ \A s \in config.servers :
              IF s \in conn.reachable
              THEN /\ Held(s)
                   /\ McpName(s, RemoteTool) \in Range(PoolGetTools)
                   /\ (ct.pc = "done" /\ ct.server = s) =>
                          ct.err \notin {"server not found in config",
                                         "server session not found"}
              ELSE /\ ~Held(s)
                   /\ McpName(s, RemoteTool) \notin Range(PoolGetTools)
        /\ \A s, t \in config.servers :
              (Held(s) /\ Held(t) /\ s # t) => SessionOf(s) # SessionOf(t)

\* server a could not be reached, server b could, and a tool of b was called
\* with success
C14_Witness ==
    /\ client.built
    /\ conn.reachable = {ServerB}
    /\ ct.pc = "done" /\ ct.server = ServerB /\ ct.err = "" /\ ct.attempts = 1

\* C15: a CallTool whose every attempt hit a connection error, as many
\* attempts as maxRetries allows, returns the retries-exhausted error
\* 'failed to call tool after N retries' with N the number of attempts.
C15_RetriesExhaustedError ==
    (ct.pc = "done" /\ ct.connErrs = client.maxRetries) =>
        /\ ct.err = "failed to call tool after retries"
        /\ ct.reported = ct.attempts

\* C17: Close closes every session the client holds, whether or not some
\* close fails; its error aggregates exactly the failures, and is nil exactly
\* when every close succeeded.
C17_CloseAllAggregated ==
    conn.shut.done =>
        /\ HeldSessions \subseteq conn.closed
        /\ conn.shut.failed \subseteq HeldSessions
        /\ conn.shut.err.errs = conn.shut.failed
        /\ conn.shut.err.nil <=> conn.shut.failed = {}

\* two sessions were held, closing the one of server a failed, the one of
\* server b was closed all the same
C17_Witness ==
    /\ conn.shut.done
    /\ Held(ServerA) /\ Held(ServerB)
    /\ conn.shut.failed = {SessionOf(ServerA)}
    /\ SessionOf(ServerB) \in conn.closed
    /\ ~conn.shut.err.nil

\* The step is a remote call attempt of CallTool
AttemptStep == ct.pc = "loop" /\ ct'.attempts = ct.attempts + 1

\* C19: after a connection error with retries left CallTool closes the
\* failed session, then waits, then rebuilds the session, and the retry is
\* made on the new session: no remote call is made on a session that has
\* been closed, while the call waits the session of its server is closed, and
\* a retry follows a wait of attempt-number seconds.
C19_RetryOnNewSession ==
    /\ [][ AttemptStep => SessionOf(ct.server) \notin conn.closed ]_vars
    /\ [][ (AttemptStep /\ ct.i > 0) =>
             /\ ct.reconnects = ct.i
             /\ client.sessions[ct.server] = conn.created[ct.server] ]_vars
    /\ [](ct.pc \in {"wait", "reconnect"} => SessionOf(ct.server) \in conn.closed)
    /\ [](ct.pc = "reconnect" => ct.waited > 0)

\* C20: one CallTool makes at most maxRetries remote call attempts and at
\* most maxRetries - 1 reconnection attempts, where maxRetries is the
\* configured number, or 3 when that is not positive.
C20_BoundedRetries ==
    client.built =>
        /\ client.maxRetries = (IF config.MaxRetries > 0 THEN config.MaxRetries ELSE 3)
        /\ ct.attempts <= client.maxRetries
        /\ ct.reconnects <= client.maxRetries - 1
        /\ ct.i <= client.maxRetries - 1
        /\ ct.pc = "done" => ct.attempts <= ct.i + 1

\* with MaxRetries unset, a call has returned after three attempts and two
\* reconnections
C20_Witness ==
    /\ config.MaxRetries = 0
    /\ ct.pc = "done" /\ ct.attempts = 3 /\ ct.reconnects = 2

\* The message holds none of the phrases "connection closed", "EOF",
\* "broken pipe", "connection reset"
NoConnectionPhrase(errMsg) ==
    \A phrase \in { <<"connection", "closed">>, <<"EOF">>, <<"broken", "pipe">>,
                    <<"connection", "reset">> } : ~Contains(errMsg, phrase)

\* C21: a remote call that fails with an error whose message holds none of
\* the four connection phrases makes CallTool return "failed to call tool"
\* in that very step: the session is not closed, the pool is not changed, no
\* wait and no reconnection follow, and a call whose first failure is of
\* this kind has made exactly one attempt.
C21_OtherErrorReturnsAtOnce ==
    /\ [][ (AttemptStep /\ ct'.last \in RemoteErrors /\ NoConnectionPhrase(ct'.last)) =>
             /\ ct'.pc = "done"
             /\ ct'.err = "failed to call tool"
             /\ conn' = conn
             /\ client' = client
             /\ ct'.reconnects = ct.reconnects
             /\ ct'.waited = ct.waited ]_vars
    /\ []((ct.pc = "done" /\ ct.attempts > 0 /\ ct.connErrs = 0
            /\ ct.last \in RemoteErrors /\ NoConnectionPhrase(ct.last)) =>
             /\ ct.attempts = 1
             /\ ct.reconnects = 0
             /\ ct.waited = 0
             /\ ct.err = "failed to call tool")

\* a call has returned the failure "context canceled" of its first attempt
\* and its session is open
C21_Witness ==
    /\ ct.pc = "done"
    /\ ct.last = <<"context", "canceled">>
    /\ ct.err = "failed to call tool"
    /\ ct.attempts = 1
    /\ SessionOf(ct.server) \notin conn.closed

\* C22: whenever no CallTool is under way and the pool has not been shut
\* down, every session stored in the pool is open: a session closed by
\* CallTool has been replaced or removed by the time CallTool returns, so
\* that GetTools, a later CallTool and Close find open sessions only.
C22_StoredSessionsOpen ==
    (client.built /\ ct.pc \in {"idle", "done"} /\ ~conn.shut.done) =>
        HeldSessions \cap conn.closed = {}

----------------------------------------------------------------------------
(* Properties of the tool-call loop, continued *)

\* The loop over msg.ToolCalls stands at call idx of the batch of the last
\* assistant message, and the calls before it have their replies, in order
InBatch ==
    /\ idx \in 1..Len(calls)
    /\ Len(messages) >= idx
    /\ LET a == Len(messages) - (idx - 1)
       IN  /\ messages[a].role = "assistant"
           /\ messages[a].calls = calls
           /\ \A k \in 1..(idx - 1) : /\ messages[a + k].role = "tool"
                                      /\ messages[a + k].tcid = calls[k].id

\* C23: the tool calls of one assistant message are processed one at a time
\* in the order of the list: each pass handles the call at the position of
\* the loop, appends the tool-role reply with that call's id at the end of
\* the history and moves to the next position, and a chat-completion request
\* is issued only at the loop head, when every call has its reply.
C23_BatchInOrder ==
    /\ [](pc = "call" => InBatch)
    /\ [][ CallStep =>
             /\ exec'.tc = calls[idx]
             /\ Len(messages') = Len(messages) + 1
             /\ SubSeq(messages', 1, Len(messages)) = messages
             /\ messages'[Len(messages')].role = "tool"
             /\ messages'[Len(messages')].tcid = calls[idx].id
             /\ IF idx < Len(calls)
                THEN pc' = "call" /\ idx' = idx + 1
                ELSE pc' = "head" ]_vars
    /\ [][ iter' = iter + 1 => (pc = "head" /\ Answered(messages)) ]_vars

\* a second request has been issued after a batch of two calls, whose
\* replies stand in the history in the order of the calls
C23_Witness ==
    /\ iter = 2
    /\ \E i \in DOMAIN messages :
          /\ Len(messages[i].calls) = 2
          /\ i + 3 <= Len(messages)
          /\ messages[i + 1].tcid = messages[i].calls[1].id
          /\ messages[i + 2].tcid = messages[i].calls[2].id
          /\ messages[i + 3].role = "assistant"

\* C24: a reply without tool calls, whether the list is absent or empty,
\* ends the loop in the iteration that received it: its content is returned
\* as the final answer and no further request is issued; a turn that returned
\* an answer leaves a history that ends with an assistant message without
\* tool calls.
C24_NoToolCallsReturns ==
    /\ [][ ( /\ iter' = iter + 1
             /\ Len(messages') = Len(messages) + 1
             /\ messages'[Len(messages')].role = "assistant"
             /\ Len(messages'[Len(messages')].calls) = 0 ) =>
               /\ outcome' = "final"
               /\ pc' \in {"idle", "ask"} ]_vars
    /\ []((Returned /\ outcome = "final") =>
            /\ messages[Len(messages)].role = "assistant"
            /\ Len(messages[Len(messages)].calls) = 0)

----------------------------------------------------------------------------
(* Further properties of the catalog and the dispatch *)

\* The scripts of the skill whose generated tool name is n
ScriptsNamed(n) ==
    { i \in DOMAIN skill.scripts : generateScriptTool(skill.scripts[i]) = n }

\* C25: when the tool name generated from a script of the skill is the name
\* of a base tool, a call with that name and well-formed arguments runs the
\* script of the skill, not the built-in tool.
C25_ScriptShadowsBase ==
    (/\ exec.route.kind # "none"
     /\ UnmarshalOk(exec.tc.args)
     /\ exec.tc.name \in Range(GetBaseTools)
     /\ ScriptsNamed(exec.tc.name) # {}) =>
        /\ exec.route.kind = "script"
        /\ \E i \in ScriptsNamed(exec.tc.name) :
              exec.route.target = JoinPath(skill.path, skill.scripts[i])

\* C26: distinct script paths of one skill get distinct tool names and
\* entries of their own in the script map: every script of the skill is
\* found in the map under its tool name, and a call of that name runs that
\* script and no other.
C26_ScriptsDistinct ==
    /\ pc = "built" =>
          \A i, j \in DOMAIN skill.scripts :
              /\ skill.scripts[i] # skill.scripts[j] =>
                    generateScriptTool(skill.scripts[i]) # generateScriptTool(skill.scripts[j])
              /\ \E k \in DOMAIN scriptMap :
                    /\ scriptMap[k].name = generateScriptTool(skill.scripts[i])
                    /\ scriptMap[k].path = JoinPath(skill.path, skill.scripts[i])
    /\ exec.route.kind = "script" =>
          \A i \in ScriptsNamed(exec.tc.name) :
              exec.route.target = JoinPath(skill.path, skill.scripts[i])

\* C27: a tool call reaches a tool implementation only if its name is in the
\* catalog that was offered to the model; a built-in tool that is not in the
\* catalog is not executed even when the model calls it by name.
C27_OnlyOfferedExecuted ==
    Executes(exec.route) => exec.tc.name \in Range(availableTools)

\* Letters, digits and the underscore
NameChars == Range(Lower) \cup Range(Upper) \cup Range(Digits) \cup {"_"}

\* C28: every tool name of a merged catalog is a non-empty string of
\* letters, digits and underscores, whether it is a base tool name, a name
\* generated from a script path, or a name built from a configured server
\* name and a remote tool name.
C28_NamesMatchPattern ==
    pc = "built" =>
        \A i \in DOMAIN availableTools :
            /\ availableTools[i] # <<>>
            /\ Range(availableTools[i]) \subseteq NameChars

\* C29: every name GetTools builds from a server s and a remote tool t
\* parses back into exactly (s, t), and a call of that name with well-formed
\* arguments is routed to tool t of server s.
C29_ExposedNameRoundTrip ==
    (pc = "built" /\ mcp.present) =>
        \A i \in DOMAIN mcp.sessions : \A j \in DOMAIN mcp.sessions[i].tools :
            LET s == mcp.sessions[i].name
                t == mcp.sessions[i].tools[j]
                exposed == s \o <<"_","_">> \o t
            IN  /\ exposed \in Range(McpGetTools(mcp.sessions))
                /\ parseToolName(exposed) = [ok |-> TRUE, server |-> s, tool |-> t]
                /\ (exec.tc.name = exposed /\ UnmarshalOk(exec.tc.args)) =>
                      /\ exec.route.kind = "mcp"
                      /\ exec.route.target = s \o <<"/">> \o t

----------------------------------------------------------------------------
(* Further properties of the MCP client *)

\* The call under way names a server that is not configured, or one the
\* pool holds no session for
UnknownServer ==
    /\ ct.pc # "idle"
    /\ parseToolName(ct.name).ok
    /\ (ct.server \notin config.servers \/ client.sessions[ct.server] = 0)

\* C30: a CallTool whose name parses into a server that is not configured,
\* or that the pool holds no session for (its connection failed when the
\* client was built), makes no remote call and returns an unknown-server
\* error, "server not found in config" or "server session not found",
\* without waiting, reconnecting or touching the pool.
C30_UnknownServerNoRemoteCall ==
    /\ [](UnknownServer =>
            /\ ct.attempts = 0 /\ ct.reconnects = 0 /\ ct.waited = 0
            /\ ct.pc \in {"loop", "done"}
            /\ ct.pc = "done" =>
                  ct.err = (IF ct.server \notin config.servers
                            THEN "server not found in config"
                            ELSE "server session not found"))
    /\ [][ (UnknownServer /\ ct.pc = "loop") =>
             /\ ct'.pc = "done"
             /\ conn' = conn /\ client' = client ]_vars
    /\ [][ (ct.pc \in {"idle", "done"} /\ ct'.pc # "idle" /\ ct' # ct
            /\ parseToolName(ct'.name).ok /\ ct'.server \notin config.servers) =>
             ct'.pc = "done" ]_vars

\* a call for a configured server whose connection failed at startup has
\* returned "server session not found" without a remote call
C30_Witness ==
    /\ client.built
    /\ ct.pc = "done"
    /\ ct.server \in config.servers /\ ct.server \notin conn.reachable
    /\ ct.err = "server session not found"
    /\ ct.attempts = 0

----------------------------------------------------------------------------
(* Skill discovery and selection *)

\* Names of skills, as the descriptors of the packages give them
pdf == <<"p","d","f">>
pd == <<"p","d">>
xl == <<"x","l">>
Pdf == <<"P","d","f">>

SkillPackage(name, path) == [name |-> name, path |-> path]

\* What ParseSkillPackages may return: no package, one, two with different
\* names, two of which one name is part of the other, two packages of the
\* same name in different directories, one whose name has a capital letter
PackageLists ==
    { <<>>,
      << SkillPackage(pdf, <<"/","a">>) >>,
      << SkillPackage(pdf, <<"/","a">>), SkillPackage(xl, <<"/","b">>) >>,
      << SkillPackage(pdf, <<"/","a">>), SkillPackage(pd, <<"/","b">>) >>,
      << SkillPackage(pdf, <<"/","a">>), SkillPackage(pdf, <<"/","b">>) >>,
      << SkillPackage(Pdf, <<"/","a">>) >> }

\* RunnerConfig.SkillName: unset, a skill, something else
SkillNames == { <<>>, pdf, <<"z","z">> }

\* The content of the model's reply to the selection request
SelectionReplies ==
    { pdf, <<" ","p","d","f"," ">>, <<"'","p","d","f","'">>, <<"P","D","F">>,
      <<"u","s","e"," ","p","d","f">>, <<"x","l"," ","p","d","f">>,
      <<"n","o">>, <<"\"","x","l","\""," ">> }

\* discoverSkills, lines 189-194: the packages keyed by name, a later package
\* replacing an earlier one of the same name
discoverSkills(packages) ==
    [ n \in { packages[i].name : i \in DOMAIN packages } |->
        LET last == CHOOSE i \in DOMAIN packages :
                       /\ packages[i].name = n
                       /\ \A j \in DOMAIN packages : packages[j].name = n => j <= i
        IN  packages[last] ]

\* The orders in which a range over the map may visit its keys
Orders(skills) ==
    { o \in [1..Cardinality(DOMAIN skills) -> DOMAIN skills] : Range(o) = DOMAIN skills }

\* strings.Trim(s, cutset)
RECURSIVE Trim(_, _)
Trim(s, cutset) ==
    IF s = <<>> THEN s
    ELSE IF Head(s) \in cutset THEN Trim(Tail(s), cutset)
    ELSE IF s[Len(s)] \in cutset THEN Trim(SubSeq(s, 1, Len(s) - 1), cutset)
    ELSE s

\* the names compared letter by letter, upper and lower case distinct
extractSkillNameExact(content, skills, order) ==
    IF content \in DOMAIN skills THEN content
    ELSE LET hits == { i \in DOMAIN order : Contains(content, order[i]) }
         IN  IF hits = {} THEN content
             ELSE order[CHOOSE i \in hits : \A j \in hits : i <= j]

\* extractSkillName: the content when it is a key of the map, else the first
\* key the range over the map meets that the lower-cased content contains
extractSkillName(content, skills, order) ==
    IF content \in DOMAIN skills THEN content
    ELSE LET lowerContent == ToLower(content)
             hits == { i \in DOMAIN order : Contains(lowerContent, ToLower(order[i])) }
         IN  IF hits = {} THEN content
             ELSE order[CHOOSE i \in hits : \A j \in hits : i <= j]

\* selectSkill, lines 246-251: the content of the reply, trimmed
ReplyContent(reply) == Trim(TrimSpace(reply), {"'", "\""})

\* a missing skill replaced by some discovered skill
SkillLookupAny(skills, name) ==
    IF name \in DOMAIN skills
    THEN [ok |-> TRUE, pkg |-> skills[name]]
    ELSE [ok |-> TRUE, pkg |-> skills[CHOOSE n \in DOMAIN skills : TRUE]]

\* selectAndPrepareSkill, line 164: availableSkills[selectedSkillName]
SkillLookup(skills, name) ==
    IF name \in DOMAIN skills
    THEN [ok |-> TRUE, pkg |-> skills[name]]
    ELSE [ok |-> FALSE, pkg |-> SkillPackage(<<>>, <<>>)]

\* The chat-completion request of selectSkill failed
NoReply == <<"!">>

\* selectAndPrepareSkill: discovery, selection, lookup
selectAndPrepareSkill(s, reply, order) ==
    LET skills == discoverSkills(s.packages)
        disc == [s EXCEPT !.done = TRUE]
    IN  IF s.parseErr
        THEN [disc EXCEPT !.err = "failed to discover skills"]
        ELSE IF Cardinality(DOMAIN skills) = 0
        THEN [disc EXCEPT !.err = "no valid skills found"]
        ELSE IF s.SkillName = <<>> /\ reply = NoReply
        THEN [disc EXCEPT !.skills = skills, !.order = order, !.reply = reply,
                          !.err = "failed during skill selection"]
        ELSE LET content == IF s.SkillName # <<>> THEN <<>> ELSE ReplyContent(reply)
                 name == IF s.SkillName # <<>> THEN s.SkillName
                         ELSE extractSkillName(content, skills, order)
                 got == [disc EXCEPT !.skills = skills, !.order = order,
                                     !.reply = IF s.SkillName # <<>> THEN <<>> ELSE reply,
                                     !.content = content, !.name = name]
             IN  IF SkillLookup(skills, name).ok
                 THEN [got EXCEPT !.found = TRUE]
                 ELSE [got EXCEPT !.err = "skill not found. Available skills"]

\* The skill package as the tool loop uses it
PreparedSkill(s) ==
    [path |-> SkillLookup(s.skills, s.name).pkg.path, allowed |-> <<>>, scripts |-> <<>>]

\* No skill has been prepared
NoSkill == [path |-> <<>>, allowed |-> <<>>, scripts |-> <<>>]

InitSelect ==
    /\ cfg = [AutoApproveTools |-> TRUE]
    /\ skill = NoSkill
    /\ mcp = NoMcp
    /\ messages = <<>>
    /\ pc = "idle"
    /\ mode = "none"
    /\ iter = 0
    /\ calls = <<>>
    /\ idx = 0
    /\ outcome = "none"
    /\ turns = 0
    /\ availableTools = <<>>
    /\ scriptMap = <<>>
    /\ exec = NoExec
    /\ free = 0
    /\ lock = FALSE
    /\ ctx = "live"
    /\ answer = NoAnswer
    /\ config = NoConfig
    /\ client = NoClient
    /\ conn = NoConn
    /\ ct = NoCallTool
    /\ sel \in { [NoSel EXCEPT !.packages = p, !.parseErr = e, !.SkillName = n] :
                   p \in PackageLists, e \in BOOLEAN, n \in SkillNames }
    /\ web = NoWeb

\* The turn begins with the prepared skill: the history is extended and the
\* catalog built, up to the head of the tool loop
BeginTurn(sk, history, prompt) ==
    /\ skill' = sk
    /\ messages' = Append(history, UserMessage(prompt))
    /\ availableTools' = AvailableTools(sk, mcp)
    /\ scriptMap' = GenerateToolDefinitions(sk).scriptMap
    /\ pc' = "head"
    /\ outcome' = "running"
    /\ turns' = turns + 1

\* selectAndPrepareSkill has failed: its error is returned
SelectError ==
    /\ outcome' = "select_error"
    /\ UNCHANGED << skill, messages, availableTools, scriptMap, pc, mode, turns >>

\* The replies and map orders a selection may meet
SelectionInputs ==
    { [reply |-> r, order |-> o] :
          r \in SelectionReplies \cup {NoReply},
          o \in Orders(discoverSkills(sel.packages)) }

\* Agent.Run, lines 70-83: selection, then executeSkillWithTools
RunSelecting ==
    /\ pc = "idle" /\ ~sel.done
    /\ \E in \in SelectionInputs :
          LET s == selectAndPrepareSkill(sel, in.reply, in.order)
          IN  /\ sel' = s
              /\ IF s.err # ""
                 THEN SelectError
                 ELSE /\ mode' = "run"
                      /\ BeginTurn(PreparedSkill(s),
                                   Append(messages, SystemMessage(PreparedSkill(s))),
                                   <<"p">>)
    /\ UNCHANGED << cfg, mcp, iter, calls, idx, exec, free, lock, ctx, answer >>
    /\ UNCHANGED << poolVars, web >>

\* Agent.RunLoop, lines 86-97: selection, then the first continueSkillWithTools
RunLoopSelecting ==
    /\ pc = "idle" /\ ~sel.done
    /\ \E in \in SelectionInputs :
          LET s == selectAndPrepareSkill(sel, in.reply, in.order)
          IN  /\ sel' = s
              /\ IF s.err # ""
                 THEN SelectError
                 ELSE /\ mode' = "loop"
                      /\ BeginTurn(PreparedSkill(s), messages, <<"p">>)
    /\ UNCHANGED << cfg, mcp, iter, calls, idx, exec, free, lock, ctx, answer >>
    /\ UNCHANGED << poolVars, web >>

NextSelect == RunSelecting \/ RunLoopSelecting

SpecSelect == InitSelect /\ [][NextSelect]_vars

----------------------------------------------------------------------------
(* Properties of skill discovery and selection *)

\* The names of the packages discovery returned
DiscoveredNames == { sel.packages[i].name : i \in DOMAIN sel.packages }

\* The model was asked to select, it replied, and the name taken from its
\* reply is the name of no discovered skill
SelectedUnknown ==
    /\ sel.done /\ ~sel.parseErr
    /\ sel.SkillName = <<>>
    /\ sel.reply \notin {<<>>, NoReply}
    /\ sel.name \notin DiscoveredNames

\* Selection gave no skill, and the run ended with nothing appended
NothingPrepared ==
    /\ ~sel.found
    /\ skill = NoSkill
    /\ outcome = "select_error"
    /\ pc = "idle"
    /\ messages = <<>>

Replied ==
    /\ sel.done /\ sel.err # "failed to discover skills"
    /\ sel.SkillName = <<>>
    /\ sel.reply \notin {<<>>, NoReply}

\* C32: for a given reply and given skills the extracted skill name is one
\* and the same, whichever way the extraction runs, also when several skill
\* names occur in the reply.
C32_ExtractionDeterministic ==
    Replied =>
        \A o \in Orders(sel.skills) :
            extractSkillName(sel.content, sel.skills, o) = sel.name

\* C33: every package discovery returned is selectable: no two packages
\* share a key of the skills map, the map has as many skills as packages
\* were parsed, and each package is found under its name.
C33_DiscoveredStaySelectable ==
    (sel.done /\ ~sel.parseErr /\ sel.packages # <<>>) =>
        /\ Cardinality(DOMAIN discoverSkills(sel.packages)) = Len(sel.packages)
        /\ \A i \in DOMAIN sel.packages :
              /\ sel.packages[i].name \in DOMAIN sel.skills
              /\ sel.skills[sel.packages[i].name] = sel.packages[i]

\* The skill name occurs in the content, upper and lower case alike
Occurs(n, content) == Contains(ToLower(content), ToLower(n))

\* C40: skill-name extraction returns the content itself when it is a known
\* skill name; otherwise the first known skill name, in the order the names
\* are gone through, that occurs in the content as a case-insensitive
\* substring; otherwise the content unchanged.
C40_ExtractSkillName ==
    Replied =>
        LET c == sel.content
            known == DiscoveredNames
        IN  /\ c \in known => sel.name = c
            /\ (c \notin known /\ \E n \in known : Occurs(n, c)) =>
                  \E i \in DOMAIN sel.order :
                      /\ sel.name = sel.order[i]
                      /\ sel.name \in known
                      /\ Occurs(sel.name, c)
                      /\ \A j \in 1..(i - 1) : ~Occurs(sel.order[j], c)
            /\ (c \notin known /\ \A n \in known : ~Occurs(n, c)) => sel.name = c

\* the reply "xl pdf" names two known skills, and the one gone through first
\* was extracted
C40_Witness ==
    /\ Replied
    /\ sel.content = <<"x","l"," ","p","d","f">>
    /\ sel.order = << pdf, xl >>
    /\ sel.name = pdf
    /\ sel.found

----------------------------------------------------------------------------
(* Properties of the generated names *)

\* "run_" and the path, every character that is no letter or digit replaced
\* by one underscore
ExpectedToolName(path) ==
    <<"r","u","n","_">> \o
        [ i \in 1..Len(path) |->
            IF path[i] \in Range(Lower) \cup Range(Upper) \cup Range(Digits)
            THEN path[i] ELSE "_" ]

\* C38: the tool name of a script is "run_" followed by its relative path
\* with every character outside [A-Za-z0-9] replaced by one "_", the same
\* name whenever the same path is given, and the script tools of a skill
\* stand in the catalog one after the other in the order of its scripts
\* list.
C38_ScriptToolNames ==
    pc = "built" =>
        /\ \A i \in DOMAIN skill.scripts :
              generateScriptTool(skill.scripts[i]) = ExpectedToolName(skill.scripts[i])
        /\ \E k \in 0..Len(availableTools) :
              \A i \in DOMAIN skill.scripts :
                  /\ k + i <= Len(availableTools)
                  /\ availableTools[k + i] = ExpectedToolName(skill.scripts[i])
        /\ \A i \in DOMAIN skill.scripts :
              \E e \in Range(scriptMap) : e.name = ExpectedToolName(skill.scripts[i])

\* the catalog of a skill with the scripts "V1.0 @" and "s/t.py" holds
\* run_V1_0___ and, right after it, run_s_t_py
C38_Witness ==
    /\ pc = "built"
    /\ skill.scripts = << <<"V","1",".","0"," ","@">>, test_py >>
    /\ \E k \in DOMAIN availableTools :
          /\ availableTools[k] = <<"r","u","n","_","V","1","_","0","_","_">>
          /\ k + 1 <= Len(availableTools)
          /\ availableTools[k + 1] = <<"r","u","n","_","s","_","t","_","p","y">>

\* s is a double underscore at position k of the name
SeparatorAt(name, k) == name[k] = "_" /\ name[k + 1] = "_"

\* Splitting the name on "__" gives exactly two parts: it has a first
\* separator, and what follows that separator has none
TwoParts(name) ==
    \E k \in 1..(Len(name) - 1) :
        /\ SeparatorAt(name, k)
        /\ \A j \in 1..(k - 1) : ~SeparatorAt(name, j)
        /\ \A j \in (k + 2)..(Len(name) - 1) : ~SeparatorAt(name, j)

\* C39: parsing an MCP tool name succeeds exactly when splitting it on "__"
\* gives two parts, which are then the server and the tool; a name without
\* the separator, with more than one, or an empty name is rejected with
\* "invalid tool name format" before anything else is done.
C39_ParseToolName ==
    ct.pc # "idle" =>
        IF TwoParts(ct.name)
        THEN /\ ct.err # "invalid tool name format"
             /\ ct.name = ct.server \o <<"_","_">> \o ct.tool
             /\ \A j \in 1..(Len(ct.server) - 1) : ~SeparatorAt(ct.server, j)
        ELSE /\ ct.pc = "done"
             /\ ct.err = "invalid tool name format"
             /\ ct.attempts = 0

\* the name a__t__u, with two separators, has been rejected
C39_Witness ==
    /\ ct.pc = "done"
    /\ ct.name = <<"a","_","_","t","_","_","u">>
    /\ ct.err = "invalid tool name format"

----------------------------------------------------------------------------
(* Properties of the interactive session *)

\* C34: once a read of RunLoop has found stdin at its end, the session is
\* over: the step that finds it begins no turn, and afterwards no turn is
\* begun and no chat-completion request is issued.
C34_LoopEndsAtEndOfInput ==
    /\ [][ answer'.eof => turns' = turns ]_vars
    /\ [][ answer.eof => (turns' = turns /\ iter' = iter) ]_vars
    /\ [](answer.eof => pc = "idle")

\* ---------------------------------------------------------------------------
\* cmd/agent-web: the session manager, the request handlers and the goroutine
\* that /api/chat starts, one step per statement that another goroutine can
\* observe
\* ---------------------------------------------------------------------------

\* The requests the server handles, each in a goroutine of its own
Requests == { 1, 2, 3 }

\* The session ids the requests carry
SessionIDs == { "u", "v" }

\* req.Response of /api/respond: approval (empty) or a modification
Responses == { <<>>, <<"m">> }

\* A request that has not arrived
NoRequest ==
    [ kind |-> "none", id |-> "", pc |-> "new", session |-> 0, created |-> FALSE,
      role |-> "", snap |-> <<>>, text |-> <<>>, result |-> "", seen |-> FALSE ]

\* The handler and the planning agent of one session: eventChan, the history
\* of the agent, and the plan reviews announced, streamed and answered
NewSession ==
    [ events |-> <<>>, history |-> <<>>, emitted |-> 0, streamed |-> 0,
      delivered |-> 0 ]

\* NewSessionManager: no session stored, the mutex free
NewSessionManager ==
    [ up       |-> TRUE,
      sessions |-> [i \in SessionIDs |-> 0],
      made     |-> [i \in SessionIDs |-> 0],
      mu       |-> 0,
      sess     |-> [i \in SessionIDs |-> NewSession],
      procs    |-> [p \in Requests |-> NoRequest] ]

\* The server has started and no request has arrived; nothing else runs
InitWeb ==
    /\ cfg = [AutoApproveTools |-> TRUE]
    /\ skill = NoSkill
    /\ mcp = NoMcp
    /\ messages = <<>>
    /\ pc = "idle"
    /\ mode = "none"
    /\ iter = 0
    /\ calls = <<>>
    /\ idx = 0
    /\ outcome = "none"
    /\ turns = 0
    /\ availableTools = <<>>
    /\ scriptMap = <<>>
    /\ exec = NoExec
    /\ free = 0
    /\ lock = FALSE
    /\ ctx = "live"
    /\ answer = NoAnswer
    /\ config = NoConfig
    /\ client = NoClient
    /\ conn = NoConn
    /\ ct = NoCallTool
    /\ sel = NoSel
    /\ web = NewSessionManager

\* What the web server leaves alone
webOther == << cfg, skill, mcp, messages, pc, mode, iter, calls, idx, outcome,
               turns, availableTools, scriptMap, exec, free, lock, ctx, answer,
               sel >>

\* The request p is of the kind k and stands at the position at
At(p, k, at) == web.procs[p].kind = k /\ web.procs[p].pc = at

\* The server state with the request p replaced by r
WithRequest(w, p, r) == [w EXCEPT !.procs[p] = r]

\* h.eventChan <- event (Broadcast, Log, ReviewPlan): the buffer of 100 is
\* never full with the requests above
Broadcast(w, id, event) ==
    [w EXCEPT !.sess[id].events = Append(@, event)]

\* GET /events?session_id=: the handler calls CreateSession at once
EventsRequest ==
    /\ \E p \in Requests, id \in SessionIDs :
          /\ At(p, "none", "new")
          /\ web' = WithRequest(web, p,
                       [NoRequest EXCEPT !.kind = "events", !.id = id, !.pc = "lock"])
    /\ UNCHANGED webOther /\ UNCHANGED poolVars

\* POST /api/chat with a session id and a message, direct (backslash prefix)
\* or not: the handler is about to call GetSession
ChatRequest ==
    /\ \E p \in Requests, id \in SessionIDs, direct \in BOOLEAN :
          /\ At(p, "none", "new")
          /\ web' = WithRequest(web, p,
                       [NoRequest EXCEPT !.kind = "chat", !.id = id, !.pc = "get",
                          !.role = IF direct THEN "developer" ELSE "user"])
    /\ UNCHANGED webOther /\ UNCHANGED poolVars

\* POST /api/respond with a session id and a response; seen records whether
\* the client had by then been sent a plan_review event not yet answered
RespondRequest ==
    /\ \E p \in Requests, id \in SessionIDs, r \in Responses :
          /\ At(p, "none", "new")
          /\ web' = WithRequest(web, p,
                       [NoRequest EXCEPT !.kind = "respond", !.id = id, !.pc = "get",
                          !.text = r,
                          !.seen = web.sess[id].streamed > web.sess[id].delivered])
    /\ UNCHANGED webOther /\ UNCHANGED poolVars

\* SessionManager.GetSession under the read lock: the stored session or nil (0).
\* /api/chat goes on to CreateSession when it is nil and else starts its
\* goroutine; /api/respond answers 404 when it is nil and else sends
GetSession ==
    /\ \E p \in Requests :
          LET r == web.procs[p]
              s == web.sessions[r.id]
          IN  /\ r.kind \in { "chat", "respond" } /\ r.pc = "get"
              /\ web.mu = 0
              /\ web' = WithRequest(web, p,
                    IF r.kind = "chat"
                    THEN [r EXCEPT !.session = s,
                                   !.pc = IF s = 0 THEN "lock" ELSE "add_read"]
                    ELSE [r EXCEPT !.session = s,
                                   !.pc = IF s = 0 THEN "done" ELSE "send",
                                   !.result = IF s = 0 THEN "not_found" ELSE ""])
    /\ UNCHANGED webOther /\ UNCHANGED poolVars

\* CreateSession, sm.mu.Lock(): waits until the mutex is free
CreateSessionLock ==
    /\ \E p \in Requests :
          /\ web.procs[p].kind \in { "events", "chat" } /\ web.procs[p].pc = "lock"
          /\ web.mu = 0
          /\ web' = [WithRequest(web, p, [web.procs[p] EXCEPT !.pc = "create"])
                       EXCEPT !.mu = p]
    /\ UNCHANGED webOther /\ UNCHANGED poolVars

\* A check that finds no session stored, whatever the map holds
StoredNever(sessions, id) == FALSE

\* CreateSession, lines 122-124: the check for a session stored meanwhile
Stored(sessions, id) == sessions[id] # 0

\* CreateSession with the mutex held: the stored session is returned, or a new
\* handler and agent are made and stored (the API key is not empty once the
\* server runs, so NewPlanningAgent does not fail); the mutex is released.
\* The events handler goes on to stream, /api/chat to start its goroutine
CreateSession ==
    /\ \E p \in Requests :
          LET r == web.procs[p]
              exists == Stored(web.sessions, r.id)
              n == IF exists THEN web.sessions[r.id] ELSE web.made[r.id] + 1
              w == IF exists THEN web
                   ELSE [web EXCEPT !.sessions[r.id] = n, !.made[r.id] = n]
          IN  /\ r.pc = "create" /\ web.mu = p
              /\ web' = [WithRequest(w, p,
                           [r EXCEPT !.session = n, !.created = TRUE,
                              !.pc = IF r.kind = "events" THEN "stream"
                                     ELSE "add_read"])
                           EXCEPT !.mu = 0]
    /\ UNCHANGED webOther /\ UNCHANGED poolVars

\* The events handler, lines 214-222: one event is taken from eventChan and
\* written to the client
StreamEvent ==
    /\ \E p \in Requests :
          LET r == web.procs[p]
              s == web.sess[r.id]
          IN  /\ At(p, "events", "stream")
              /\ s.events # <<>>
              /\ web' = [web EXCEPT !.sess[r.id].events = Tail(@),
                           !.sess[r.id].streamed =
                               IF Head(s.events) = "plan_review" THEN @ + 1 ELSE @]
    /\ UNCHANGED webOther /\ UNCHANGED poolVars

\* The events handler, lines 223-224: the client has gone
Disconnect ==
    /\ \E p \in Requests :
          /\ At(p, "events", "stream")
          /\ web' = WithRequest(web, p, [web.procs[p] EXCEPT !.pc = "done"])
    /\ UNCHANGED webOther /\ UNCHANGED poolVars

\* a.messages = append(a.messages, m) of AddUserMessage, AddDeveloperMessage
\* and AddAssistantMessage, first half: the slice is read. No lock is held
AppendRead ==
    /\ \E p \in Requests :
          LET r == web.procs[p]
          IN  /\ At(p, "chat", "add_read")
              /\ web' = WithRequest(web, p,
                           [r EXCEPT !.snap = web.sess[r.id].history,
                                     !.pc = "add_write"])
    /\ UNCHANGED webOther /\ UNCHANGED poolVars

\* The position of the goroutine after the message of the role is appended
AfterAppend(role) ==
    IF role = "user" THEN "plan"
    ELSE IF role = "assistant" THEN "response" ELSE "direct"

\* Second half: the slice that was read, one message longer, is stored
AppendWrite ==
    /\ \E p \in Requests :
          LET r == web.procs[p]
          IN  /\ At(p, "chat", "add_write")
              /\ web' = [WithRequest(web, p,
                            [r EXCEPT !.snap = <<>>, !.pc = AfterAppend(r.role)])
                           EXCEPT !.sess[r.id].history =
                              Append(r.snap, [role |-> r.role, by |-> p])]
    /\ UNCHANGED webOther /\ UNCHANGED poolVars

\* The direct chat, lines 280-289: a log and a done event
DirectDone ==
    /\ \E p \in Requests :
          LET r == web.procs[p]
          IN  /\ At(p, "chat", "direct")
              /\ web' = WithRequest(
                           Broadcast(Broadcast(web, r.id, "log"), r.id, "done"),
                           p, [r EXCEPT !.pc = "done", !.result = "direct"])
    /\ UNCHANGED webOther /\ UNCHANGED poolVars

\* PlanningAgent.Plan, from PlanWithReview: the history is read and the model
\* asked; on an error the goroutine broadcasts it and ends
Plan ==
    /\ \E p \in Requests, ok \in BOOLEAN :
          LET r == web.procs[p]
          IN  /\ At(p, "chat", "plan")
              /\ web' = IF ok
                        THEN WithRequest(web, p, [r EXCEPT !.pc = "emit"])
                        ELSE WithRequest(Broadcast(web, r.id, "error"), p,
                                         [r EXCEPT !.pc = "done", !.result = "error"])
    /\ UNCHANGED webOther /\ UNCHANGED poolVars

\* ReviewPlan, line 52: the plan_review event is put on eventChan
ReviewPlanEmit ==
    /\ \E p \in Requests :
          LET r == web.procs[p]
          IN  /\ At(p, "chat", "emit")
              /\ web' = [WithRequest(Broadcast(web, r.id, "plan_review"), p,
                                     [r EXCEPT !.pc = "park"])
                           EXCEPT !.sess[r.id].emitted = @ + 1]
    /\ UNCHANGED webOther /\ UNCHANGED poolVars

\* ReviewPlan, line 57: the goroutine reaches the receive on responseChan and
\* parks there
ReviewPlanReceive ==
    /\ \E p \in Requests :
          /\ At(p, "chat", "park")
          /\ web' = WithRequest(web, p, [web.procs[p] EXCEPT !.pc = "receive"])
    /\ UNCHANGED webOther /\ UNCHANGED poolVars

\* The goroutines of the session parked in the receive on responseChan
Receivers(w, id) ==
    { q \in Requests : w.procs[q].kind = "chat" /\ w.procs[q].id = id
                         /\ w.procs[q].pc = "receive" }

\* /api/respond, lines 385-391: the send on the unbuffered responseChan goes
\* through when a goroutine is parked in the receive, to one of them; else the
\* default case is taken and the response is gone. The answer is 200 in both
Respond ==
    /\ \E p \in Requests :
          LET r == web.procs[p]
              waiting == Receivers(web, r.id)
          IN  /\ At(p, "respond", "send")
              /\ IF waiting = {}
                 THEN web' = WithRequest(web, p,
                                [r EXCEPT !.pc = "done", !.result = "dropped"])
                 ELSE \E q \in waiting :
                        web' = [WithRequest(
                                  WithRequest(web, p,
                                     [r EXCEPT !.pc = "done", !.result = "delivered"]),
                                  q, [web.procs[q] EXCEPT !.pc = "reviewed",
                                                         !.text = r.text])
                                  EXCEPT !.sess[r.id].delivered = @ + 1]
    /\ UNCHANGED webOther /\ UNCHANGED poolVars

\* PlanWithReview, lines 177-196: an empty modification ends the review, any
\* other one is planned again and reviewed again
Reviewed ==
    /\ \E p \in Requests :
          LET r == web.procs[p]
          IN  /\ At(p, "chat", "reviewed")
              /\ web' = WithRequest(web, p,
                           [r EXCEPT !.text = <<>>,
                              !.pc = IF r.text = <<>> THEN "execute" ELSE "plan"])
    /\ UNCHANGED webOther /\ UNCHANGED poolVars

\* PlanningAgent.Execute: the history is read for every task; on an error the
\* goroutine broadcasts it and ends, else the assistant message is appended
Execute ==
    /\ \E p \in Requests, ok \in BOOLEAN :
          LET r == web.procs[p]
          IN  /\ At(p, "chat", "execute")
              /\ web' = IF ok
                        THEN WithRequest(web, p,
                                [r EXCEPT !.pc = "add_read", !.role = "assistant"])
                        ELSE WithRequest(Broadcast(web, r.id, "error"), p,
                                         [r EXCEPT !.pc = "done", !.result = "error"])
    /\ UNCHANGED webOther /\ UNCHANGED poolVars

\* Lines 344-352: the response and the done event
ResponseDone ==
    /\ \E p \in Requests :
          LET r == web.procs[p]
          IN  /\ At(p, "chat", "response")
              /\ web' = WithRequest(
                           Broadcast(Broadcast(web, r.id, "response"), r.id, "done"),
                           p, [r EXCEPT !.pc = "done", !.result = "response"])
    /\ UNCHANGED webOther /\ UNCHANGED poolVars

NextWeb ==
    \/ EventsRequest
    \/ ChatRequest
    \/ RespondRequest
    \/ GetSession
    \/ CreateSessionLock
    \/ CreateSession
    \/ StreamEvent
    \/ Disconnect
    \/ AppendRead
    \/ AppendWrite
    \/ DirectDone
    \/ Plan
    \/ ReviewPlanEmit
    \/ ReviewPlanReceive
    \/ Respond
    \/ Reviewed
    \/ Execute
    \/ ResponseDone

SpecWeb == InitWeb /\ [][NextWeb]_vars

\* C36: under every interleaving of requests the session manager makes at most
\* one session for a session id, and every caller of GetSession or
\* CreateSession that obtains a session for the id obtains that one
C36_OneSessionPerId ==
    \A id \in SessionIDs :
       /\ web.made[id] <= 1
       /\ web.sessions[id] \in { 0, 1 }
       /\ \A p \in Requests :
             (web.procs[p].id = id /\ web.procs[p].session # 0)
                => web.procs[p].session = web.sessions[id]

\* Two /api/chat requests of one id both found no session, both called
\* CreateSession, and both hold the one session
C36_Witness ==
    \E p, q \in Requests :
       /\ p # q
       /\ web.procs[p].kind = "chat" /\ web.procs[q].kind = "chat"
       /\ web.procs[p].id = web.procs[q].id
       /\ web.procs[p].created /\ web.procs[q].created
       /\ web.procs[p].session = 1 /\ web.procs[q].session = 1
       /\ web.made[web.procs[p].id] = 1

\* A plan review of the session is pending: more plan_review events have been
\* emitted than responses received by ReviewPlan
ReviewPending(id) == web.sess[id].emitted > web.sess[id].delivered

\* C35: a response posted to /api/respond after the plan_review event of a
\* pending review was emitted (and streamed to the client) is delivered to the
\* waiting ReviewPlan call whenever its send happens while a review of the
\* session is still pending; it is never dropped
C35_ResponseDelivered ==
    [][ \A p \in Requests :
           ( /\ At(p, "respond", "send")
             /\ web.procs[p].seen
             /\ ReviewPending(web.procs[p].id)
             /\ web'.procs[p].pc = "done" )
           => /\ web'.procs[p].result = "delivered"
              /\ web'.sess[web.procs[p].id].delivered
                    = web.sess[web.procs[p].id].delivered + 1 ]_vars

\* The goroutine of the chat request p of the session is running
Running(p, id) ==
    /\ web.procs[p].kind = "chat" /\ web.procs[p].id = id
    /\ web.procs[p].pc \in { "add_read", "add_write", "plan", "emit", "park",
                             "receive", "reviewed", "execute", "response",
                             "direct" }

\* The goroutine of p is inside an append to the history of the session
Appending(p, id) ==
    /\ web.procs[p].kind = "chat" /\ web.procs[p].id = id
    /\ web.procs[p].pc = "add_write"

\* C37: the chat requests of one session are processed one after another: no
\* two goroutines are inside an append to the history of the session at once,
\* no two goroutines of the session run at once, and in the history a user
\* message is followed by nothing or by a message of the same request
C37_HistorySerialised ==
    \A id \in SessionIDs :
       /\ \A p, q \in Requests :
             p # q => /\ ~(Appending(p, id) /\ Appending(q, id))
                      /\ ~(Running(p, id) /\ Running(q, id))
       /\ LET h == web.sess[id].history
          IN  \A i \in 1..Len(h) :
                 (h[i].role = "user" /\ i < Len(h)) => h[i+1].by = h[i].by

====
